---- MODULE Spec2Model ----
(***************************************************************************)
(* A model of the two core components of gmail-mcp:                        *)
(*   - EmailService.processBatches (src/src/services/gmail-api.client.ts), *)
(*     the batch engine behind batchModifyEmails and batchDeleteEmails;    *)
(*   - EmailBuilder (src/src/builders/email.builder.ts), the message       *)
(*     builder behind sendEmail and createDraft;                           *)
(*   - EmailBuilder.encodeHeader, by itself;                               *)
(*   - EmailService.sendEmail and createDraft, which call the builder and  *)
(*     then the Gmail API.                                                 *)
(*   - EmailService.batchModifyEmails and batchDeleteEmails with their     *)
(*     remote per-message calls (SpecService), and the tools               *)
(*     batch_modify_emails and batch_delete_emails (SpecTool);             *)
(*   - LabelService.deleteLabel and getOrCreateLabel with the              *)
(*     get_or_create_label tool (SpecLabel).                               *)
(* SpecBatch is the specification of the batch engine, SpecBuild that of   *)
(* the message builder, SpecHeader that of encodeHeader and SpecSend that  *)
(* of sendEmail and createDraft.  A variable of a component that a         *)
(* specification does not run keeps its initial value.                     *)
(***************************************************************************)
EXTENDS Integers, Sequences, FiniteSets, TLC

VARIABLES
    \* ---- EmailService.processBatches ----
    items,      \* the items parameter
    batchSize,  \* the batchSize parameter
    i,          \* the loop index of line 451 (0-based, as in the code)
    batch,      \* the chunk of line 452
    k,          \* the position of the for-of loop of line 458 in batch (0-based)
    successes,  \* the successes array of line 448
    failures,   \* the failures array of line 449
    bpc,        \* where processBatches stands
    calls,      \* history: every processFn call issued, in issue order
    result,     \* what processBatches has returned or thrown
    \* ---- EmailBuilder.buildEmail ----
    params,     \* the SendEmailParams of the build
    files,      \* the paths for which fs.existsSync answers true
    lookups,    \* history: the paths fs.existsSync was asked about, in order
    mpc,        \* where buildEmail stands
    mode,       \* the builder method buildEmail has dispatched to
    boundary,   \* the boundary drawn at line 98
    built,      \* what buildEmail has returned or thrown
    \* ---- EmailBuilder.encodeHeader ----
    hdrIn,      \* the text parameter
    hdrOut,     \* what encodeHeader has returned
    hpc,        \* where encodeHeader stands
    \* ---- EmailService.sendEmail / createDraft ----
    op,         \* the method called: "sendEmail" or "createDraft"
    threadId,   \* params.threadId
    authenticated, \* what authService.isAuthenticated() answers
    spc,        \* where the method stands
    remote,     \* history: the Gmail API calls issued, in order
    buildCalls, \* history: how many times buildEmail was called
    sent,       \* what the method has returned or thrown
    \* ---- EmailService.batchModifyEmails / batchDeleteEmails ----
    svcOp,      \* the method called: "modify" or "delete"
    rcalls,     \* history: the remote per-message calls issued, in order
    deleted,    \* the messages deleted at the remote side
    \* ---- handleTool: batch_modify_emails / batch_delete_emails ----
    toolArgs,   \* the arguments of the tool call
    tpc,        \* where the handler stands
    toolResp,   \* the response of the tool call
    \* ---- LabelService and handleTool: labels ----
    labels,     \* the labels of the mailbox, at the remote side
    lcalls,     \* history: the remote label calls issued
    gname,      \* per caller: the name parameter of getOrCreateLabel
    gpc,        \* per caller: where getOrCreateLabel stands
    gheld,      \* per caller: what the caller holds of the remote answers
    gres,       \* per caller: what getOrCreateLabel has returned or thrown
    gresp,      \* per caller: the text of the tool response
    dId,        \* the id parameter of deleteLabel
    dpc,        \* where deleteLabel stands
    dheld,      \* the label labels.get answered with
    dres        \* what deleteLabel has returned or thrown

batchVars == <<items, batchSize, i, batch, k, successes, failures, bpc, calls, result>>
buildVars == <<params, files, lookups, mpc, mode, boundary, built>>
headerVars == <<hdrIn, hdrOut, hpc>>
sendVars == <<op, threadId, authenticated, spc, remote, buildCalls, sent>>
serviceVars == <<svcOp, rcalls, deleted>>
toolVars == <<toolArgs, tpc, toolResp>>
labelVars == <<labels, lcalls, gname, gpc, gheld, gres, gresp, dId, dpc, dheld, dres>>
vars == <<batchVars, buildVars, headerVars, sendVars, serviceVars, toolVars, labelVars>>

(***************************************************************************)
(* Bounds of the model.                                                    *)
(***************************************************************************)
\* The longest item list drawn over Ids (ExampleItems is drawn besides).
MaxItems == 3
\* The largest batchSize drawn.
MaxBatchSize == 3

(***************************************************************************)
(* Values.                                                                 *)
(***************************************************************************)
\* Message ids the item lists are drawn over; two ids make duplicates.
Ids == {"a", "b"}
\* The item list of the worked example: five distinct ids.
ExampleItems == <<"a", "b", "c", "d", "e">>

ItemLists == UNION {[1..n -> Ids] : n \in 0..MaxItems} \cup {ExampleItems}

\* What a processFn call can throw: an Error carrying a message, or a value
\* that is no Error (a string, a response object).
Thrown == {[isError |-> TRUE, message |-> "Not Found"],
           [isError |-> FALSE, message |-> "ECONNRESET"]}
NoError == [isError |-> FALSE, message |-> ""]

Min(a, b) == IF a < b THEN a ELSE b
Max(a, b) == IF a > b THEN a ELSE b

(***************************************************************************)
(* Array.prototype.slice(start, end) on a sequence, with JavaScript's      *)
(* treatment of negative and out-of-range indices (0-based, end exclusive).*)
(***************************************************************************)
RelIndex(n, len) == IF n < 0 THEN Max(len + n, 0) ELSE Min(n, len)

Slice(s, start, end) ==
    LET from == RelIndex(start, Len(s))
        to == RelIndex(end, Len(s))
    IN IF from < to THEN SubSeq(s, from + 1, to) ELSE <<>>

\* String(item): the items are message ids, strings already.
StringOf(item) == item

\* A variant of ErrorMessage that reads .message off whatever was thrown.
ErrorMessage_Raw(e) == e.message

\* Line 463: itemError instanceof Error ? itemError.message : 'Unknown error'
ErrorMessage(e) == IF e.isError THEN e.message ELSE "Unknown error"

\* Line 452: the chunk starting at index from.
ChunkAt(from) == Slice(items, from, from + batchSize)

\* A variant of NextIndex that steps one item too far.
NextIndex_Skip(from) == from + batchSize + 1

\* How far below zero the index of line 451 goes.  A Number no longer
\* changes under i += batchSize once it is far enough below zero (at -2^53
\* in JavaScript for a batchSize of -1); the model places that point at
\* -MaxIndexDepth.
MaxIndexDepth == 4
IndexFloor == 0 - MaxIndexDepth

\* Line 451: i += batchSize
NextIndex(from) == Max(from + batchSize, IndexFloor)

\* A variant of PushAll that counts a resolved chunk as one success.
PushAll_First(succ, chunk) == Append(succ, StringOf(chunk[1]))

\* Line 455: batch.forEach((item) => successes.push(String(item)))
PushAll(succ, chunk) == succ \o [n \in 1..Len(chunk) |-> StringOf(chunk[n])]

\* Line 461: successes.push(String(item))
PushSuccess(succ, item) == Append(succ, StringOf(item))

\* A variant of PushFailure that keeps one entry per distinct item.
PushFailure_Dedup(fails, item, e) ==
    IF \E n \in 1..Len(fails) : fails[n].item = StringOf(item)
    THEN fails
    ELSE Append(fails, [item |-> StringOf(item), error |-> ErrorMessage(e)])

\* Line 464: failures.push({ item: String(item), error: errorMessage })
PushFailure(fails, item, e) ==
    Append(fails, [item |-> StringOf(item), error |-> ErrorMessage(e)])

\* A processFn call as the history keeps it: pos is the input index (0-based)
\* of the first item of arg.
Call(kind, pos, arg) ==
    [kind |-> kind, pos |-> pos, arg |-> arg, status |-> "pending", err |-> NoError]

Settle(cs, status, e) ==
    [cs EXCEPT ![Len(cs)] = [@ EXCEPT !.status = status, !.err = e]]

Running == [status |-> "running", successes |-> 0, failures |-> <<>>]

(***************************************************************************)
(* Text.  A JavaScript string is modelled as a sequence of atoms, each atom *)
(* a non-empty run of characters; the empty string is <<>>.  A value whose  *)
(* characters matter (an address, a subject) is cut into one-character      *)
(* atoms; a literal of the code is one atom.  Concatenation is \o.          *)
(***************************************************************************)
CRLF == "<CR><LF>"
LF == "<LF>"

\* An optional field: undefined, or a value.
Some(v) == [present |-> TRUE, v |-> v]
Undefined == [present |-> FALSE, v |-> <<>>]
UndefinedMime == [present |-> FALSE, v |-> ""]

\* Array.prototype.join(sep) over an array of strings.
RECURSIVE Join(_, _)
Join(parts, sep) ==
    IF parts = <<>> THEN <<>>
    ELSE IF Len(parts) = 1 THEN parts[1]
    ELSE parts[1] \o <<sep>> \o Join(Tail(parts), sep)

\* Boolean(s) of a string: false for the empty string only.
Truthy(s) == s # <<>>

\* Array.prototype.filter(Boolean) over an array of strings.
FilterBoolean(parts) == SelectSeq(parts, Truthy)

\* The builder at rest, as the batch engine's specification keeps it.
NotBuilt == [status |-> "none", doc |-> <<>>, error |-> <<>>]

BuildIdle ==
    /\ params = <<>>
    /\ files = {}
    /\ lookups = <<>>
    /\ mpc = "idle"
    /\ mode = "none"
    /\ boundary = <<>>
    /\ built = NotBuilt

\* encodeHeader at rest.
HeaderIdle ==
    /\ hdrIn = <<>>
    /\ hdrOut = <<>>
    /\ hpc = "idle"

\* sendEmail and createDraft at rest.
NotSent == [status |-> "none", id |-> <<>>, error |-> <<>>]

SendIdle ==
    /\ op = "none"
    /\ threadId = Undefined
    /\ authenticated = TRUE
    /\ spc = "idle"
    /\ remote = <<>>
    /\ buildCalls = 0
    /\ sent = NotSent

\* batchModifyEmails and batchDeleteEmails at rest.
ServiceIdle ==
    /\ svcOp = "none"
    /\ rcalls = <<>>
    /\ deleted = {}

\* The batch tools at rest.
ToolIdle ==
    /\ toolArgs = <<>>
    /\ tpc = "idle"
    /\ toolResp = <<>>

\* The label service at rest.
LabelIdle ==
    /\ labels = {}
    /\ lcalls = {}
    /\ gname = <<>>
    /\ gpc = <<>>
    /\ gheld = <<>>
    /\ gres = <<>>
    /\ gresp = <<>>
    /\ dId = ""
    /\ dpc = "idle"
    /\ dheld = <<>>
    /\ dres = <<>>

(***************************************************************************)
(* EmailService.processBatches, one action per step between awaits.        *)
(***************************************************************************)
InitBatch ==
    /\ items \in ItemLists
    /\ batchSize \in 1..MaxBatchSize
    /\ i = 0
    /\ batch = <<>>
    /\ k = 0
    /\ successes = <<>>
    /\ failures = <<>>
    /\ bpc = "loop"
    /\ calls = <<>>
    /\ result = Running
    /\ BuildIdle
    /\ HeaderIdle
    /\ SendIdle
    /\ ServiceIdle
    /\ ToolIdle
    /\ LabelIdle

\* Lines 451-454: the loop test holds; slice the chunk and issue processFn(batch).
BulkIssue ==
    /\ bpc = "loop"
    /\ i < Len(items)
    /\ batch' = ChunkAt(i)
    /\ calls' = Append(calls, Call("bulk", i, batch'))
    /\ bpc' = "awaitBulk"
    /\ UNCHANGED <<items, batchSize, i, k, successes, failures, result>>
    /\ UNCHANGED <<buildVars, headerVars, sendVars, serviceVars, toolVars, labelVars>>

\* Lines 454-455: the bulk call resolves.
BulkResolve ==
    /\ bpc = "awaitBulk"
    /\ calls' = Settle(calls, "ok", NoError)
    /\ successes' = PushAll(successes, batch)
    /\ i' = NextIndex(i)
    /\ bpc' = "loop"
    /\ UNCHANGED <<items, batchSize, batch, k, failures, result>>
    /\ UNCHANGED <<buildVars, headerVars, sendVars, serviceVars, toolVars, labelVars>>

\* A variant of CatchBulk whose for-of loop starts at the second item.
CatchBulk_SkipFirst(e) ==
    /\ bpc' = "fallback"
    /\ k' = 1
    /\ UNCHANGED <<i, successes, failures, result>>

\* Line 456: catch (error) of the bulk call: enter the for-of loop of line 458.
CatchBulk(e) ==
    /\ bpc' = "fallback"
    /\ k' = 0
    /\ UNCHANGED <<i, successes, failures, result>>

\* Lines 454, 456: the bulk call rejects with e.
BulkReject ==
    /\ bpc = "awaitBulk"
    /\ \E e \in Thrown :
        /\ calls' = Settle(calls, "threw", e)
        /\ CatchBulk(e)
    /\ UNCHANGED <<items, batchSize, batch>>
    /\ UNCHANGED <<buildVars, headerVars, sendVars, serviceVars, toolVars, labelVars>>

\* A variant of ItemIssue that issues the calls for all items left at once, as
\* Promise.all(batch.map(...)) would.
ItemIssue_All ==
    /\ bpc = "fallback"
    /\ k < Len(batch)
    /\ calls' = calls \o [n \in 1..(Len(batch) - k) |->
                            Call("single", i + k + n - 1, <<batch[k + n]>>)]
    /\ bpc' = "awaitItem"
    /\ UNCHANGED <<items, batchSize, i, batch, k, successes, failures, result>>
    /\ UNCHANGED <<buildVars, headerVars, sendVars, serviceVars, toolVars, labelVars>>

\* A variant of ItemIssue that passes the whole chunk again for each item.
ItemIssue_WholeBatch ==
    /\ bpc = "fallback"
    /\ k < Len(batch)
    /\ calls' = Append(calls, Call("single", i + k, batch))
    /\ bpc' = "awaitItem"
    /\ UNCHANGED <<items, batchSize, i, batch, k, successes, failures, result>>
    /\ UNCHANGED <<buildVars, headerVars, sendVars, serviceVars, toolVars, labelVars>>

\* Lines 458-460: the for-of loop has an item left; issue processFn([item]).
ItemIssue ==
    /\ bpc = "fallback"
    /\ k < Len(batch)
    /\ calls' = Append(calls, Call("single", i + k, <<batch[k + 1]>>))
    /\ bpc' = "awaitItem"
    /\ UNCHANGED <<items, batchSize, i, batch, k, successes, failures, result>>
    /\ UNCHANGED <<buildVars, headerVars, sendVars, serviceVars, toolVars, labelVars>>

\* Lines 460-461: the single-item call resolves.
ItemResolve ==
    /\ bpc = "awaitItem"
    /\ calls' = Settle(calls, "ok", NoError)
    /\ successes' = PushSuccess(successes, batch[k + 1])
    /\ k' = k + 1
    /\ bpc' = "fallback"
    /\ UNCHANGED <<items, batchSize, i, batch, failures, result>>
    /\ UNCHANGED <<buildVars, headerVars, sendVars, serviceVars, toolVars, labelVars>>

\* A variant of CatchItem without the inner try/catch: the rejection leaves
\* processBatches.
CatchItem_Rethrow(e) ==
    /\ result' = [status |-> "threw", successes |-> 0, failures |-> <<>>]
    /\ bpc' = "done"
    /\ UNCHANGED <<i, k, successes, failures>>

\* Lines 462-465: catch (itemError) of a single-item call.
CatchItem(e) ==
    /\ failures' = PushFailure(failures, batch[k + 1], e)
    /\ k' = k + 1
    /\ bpc' = "fallback"
    /\ UNCHANGED <<i, successes, result>>

\* Lines 460, 462: the single-item call rejects with e.
ItemReject ==
    /\ bpc = "awaitItem"
    /\ \E e \in Thrown :
        /\ calls' = Settle(calls, "threw", e)
        /\ CatchItem(e)
    /\ UNCHANGED <<items, batchSize, batch>>
    /\ UNCHANGED <<buildVars, headerVars, sendVars, serviceVars, toolVars, labelVars>>

\* A variant of FallbackEnd that gives up the run after a failed chunk: it
\* returns the result without going on to the chunks left.
FallbackEnd_Abort ==
    /\ bpc = "fallback"
    /\ ~(k < Len(batch))
    /\ result' = [status |-> "returned", successes |-> Len(successes),
                  failures |-> failures]
    /\ bpc' = "done"
    /\ UNCHANGED <<items, batchSize, i, batch, k, successes, failures, calls>>
    /\ UNCHANGED <<buildVars, headerVars, sendVars, serviceVars, toolVars, labelVars>>

\* Lines 458, 451: the for-of loop is exhausted; the outer loop steps.
FallbackEnd ==
    /\ bpc = "fallback"
    /\ ~(k < Len(batch))
    /\ i' = NextIndex(i)
    /\ bpc' = "loop"
    /\ UNCHANGED <<items, batchSize, batch, k, successes, failures, calls, result>>
    /\ UNCHANGED <<buildVars, headerVars, sendVars, serviceVars, toolVars, labelVars>>

\* Lines 451, 470: the loop test fails; return the result.
Return ==
    /\ bpc = "loop"
    /\ ~(i < Len(items))
    /\ result' = [status |-> "returned", successes |-> Len(successes),
                  failures |-> failures]
    /\ bpc' = "done"
    /\ UNCHANGED <<items, batchSize, i, batch, k, successes, failures, calls>>
    /\ UNCHANGED <<buildVars, headerVars, sendVars, serviceVars, toolVars, labelVars>>

NextBatch ==
    \/ BulkIssue
    \/ BulkResolve
    \/ BulkReject
    \/ ItemIssue
    \/ ItemResolve
    \/ ItemReject
    \/ FallbackEnd
    \/ Return

SpecBatch == InitBatch /\ [][NextBatch]_vars

\* The batch engine with every processFn call settling eventually and the
\* event loop running every continuation that is ready: a step that can be
\* taken is taken.
SpecBatchLive == InitBatch /\ [][NextBatch]_vars /\ WF_vars(NextBatch)

(***************************************************************************)
(* The history of a batch run, as the claims read it.                      *)
(***************************************************************************)
Done == bpc = "done"

CallIdx == 1..Len(calls)
BulkIdx == {n \in CallIdx : calls[n].kind = "bulk"}
SingleIdx == {n \in CallIdx : calls[n].kind = "single"}
BulkCallSeq == SelectSeq(calls, LAMBDA c : c.kind = "bulk")
FailedSingleSeq == SelectSeq(calls, LAMBDA c : c.kind = "single" /\ c.status = "threw")

\* The input positions (0-based) a bulk call covers.
Covers(c) == {p \in 0..(Len(items) - 1) : c.pos <= p /\ p < c.pos + Len(c.arg)}

\* The single-item calls issued for input position p.
SinglesAt(p) == {n \in SingleIdx : calls[n].pos = p}

RECURSIVE Concat(_)
Concat(ss) == IF ss = <<>> THEN <<>> ELSE Head(ss) \o Concat(Tail(ss))

RECURSIVE SumLen(_)
SumLen(ss) == IF ss = <<>> THEN 0 ELSE Len(Head(ss).arg) + SumLen(Tail(ss))

\* The number of chunks of a list of n items cut by size c >= 1.
ChunkCount(n, c) == (n + c - 1) \div c

FailureItems == [n \in 1..Len(result.failures) |-> result.failures[n].item]

AllCallsThrew == \A n \in CallIdx : calls[n].status = "threw"

(***************************************************************************)
(* Claims about the batch engine, checked under SpecBatch.                 *)
(***************************************************************************)

\* C1: when a batch run has returned, successes + |failures| equals the number
\* of input items, for every item list (duplicates, empty), every chunk size
\* >= 1 and every pattern of resolved and rejected processFn calls.
C1_Accounting ==
    Done => /\ result.status = "returned"
            /\ result.successes + Len(result.failures) = Len(items)

\* C1 witness: a finished run over a list holding a duplicate, with both
\* successes and failures.
C1_Witness ==
    /\ Done
    /\ items = <<"a", "a", "b">>
    /\ batchSize = 2
    /\ result.successes >= 1
    /\ Len(result.failures) >= 1

\* C2: when every processFn call of a finished run threw, no item succeeded
\* and the failures list holds the input items, once per occurrence.
C2_AllThrow ==
    (Done /\ AllCallsThrew) =>
        /\ result.successes = 0
        /\ FailureItems = items

\* C2 witness: a finished run of two chunks over a list with a duplicate in
\* which every call threw.
C2_Witness ==
    /\ Done
    /\ AllCallsThrew
    /\ items = <<"a", "b", "a">>
    /\ batchSize = 2

\* C3: every chunk gets exactly one bulk call; a resolved bulk call is followed
\* by no single-item call for its chunk and its items all count as successes; a
\* rejected one is followed by exactly one call processFn([item]) per item of
\* the chunk; so the calls number the chunks plus the sizes of the failed chunks.
C3_CallPattern ==
    /\ \A n \in BulkIdx :
          /\ calls[n].status = "ok" =>
                \A p \in Covers(calls[n]) : SinglesAt(p) = {}
          /\ (calls[n].status = "threw" /\ Done) =>
                \A p \in Covers(calls[n]) :
                    /\ Cardinality(SinglesAt(p)) = 1
                    /\ \A m \in SinglesAt(p) : calls[m].arg = <<items[p + 1]>>
    /\ Done =>
          /\ Len(BulkCallSeq) = ChunkCount(Len(items), batchSize)
          /\ \A j \in 1..Len(BulkCallSeq) :
                /\ BulkCallSeq[j].pos = (j - 1) * batchSize
                /\ BulkCallSeq[j].arg = Slice(items, (j - 1) * batchSize, j * batchSize)
          /\ Len(calls) = Len(BulkCallSeq)
                + SumLen(SelectSeq(BulkCallSeq, LAMBDA c : c.status = "threw"))
          /\ result.successes =
                SumLen(SelectSeq(BulkCallSeq, LAMBDA c : c.status = "ok"))
                + Cardinality({n \in SingleIdx : calls[n].status = "ok"})

\* C3 witness: a finished run with a resolved chunk and a rejected chunk of
\* two items.
C3_Witness ==
    /\ Done
    /\ batchSize = 2
    /\ Len(items) >= 4
    /\ \E n, m \in BulkIdx : calls[n].status = "ok" /\ calls[m].status = "threw"
                              /\ Len(calls[m].arg) = 2

\* Whether the calls made so far behave as the processFn of the worked example:
\* it throws exactly when its argument is <<"c", "d">>.
ExampleApply ==
    \A n \in CallIdx :
        /\ calls[n].status # "pending"
        /\ calls[n].status = "threw" <=> calls[n].arg = <<"c", "d">>

ExampleRun == Done /\ items = ExampleItems /\ batchSize = 2 /\ ExampleApply

\* C4 as stated: the worked example ends with 3 successes and failures for c
\* and d.
C4_Original ==
    ExampleRun => /\ result.successes = 3
                  /\ FailureItems = <<"c", "d">>

\* C4 as amended: the worked example ends with 5 successes and no failure: the
\* bulk call for <<"c", "d">> throws, the calls for <<"c">> and <<"d">> resolve.
C4_Example ==
    ExampleRun => /\ result.successes = 5
                  /\ result.failures = <<>>
                  /\ [n \in CallIdx |-> calls[n].arg] =
                        << <<"a", "b">>, <<"c", "d">>, <<"c">>, <<"d">>, <<"e">> >>

C4_Witness == ExampleRun

C6_Partition ==
    /\ \A j \in 1..Len(BulkCallSeq) :
          /\ Len(BulkCallSeq[j].arg) >= 1
          /\ Len(BulkCallSeq[j].arg) <= batchSize
          /\ j < Len(BulkCallSeq) => Len(BulkCallSeq[j].arg) = batchSize
    /\ Done => Concat([j \in 1..Len(BulkCallSeq) |-> BulkCallSeq[j].arg]) = items

\* C6 witness: a finished run whose last chunk is shorter than the others.
C6_Witness ==
    /\ Done
    /\ Len(BulkCallSeq) >= 2
    /\ Len(BulkCallSeq[Len(BulkCallSeq)].arg) < batchSize

\* C7 as stated: while a single-item call of a failed chunk is awaited, the
\* calls for all items of that chunk have been issued.
C7_Original ==
    bpc = "awaitItem" =>
        \A p \in Covers(Call("bulk", i, batch)) : SinglesAt(p) # {}

\* C7 as amended: the single-item calls of a failed chunk are issued one at a
\* time, in item order, each after the call before it has settled: only the
\* call issued last can be pending, and the calls before it for the same chunk
\* are at the positions before its own.
C7_Sequential ==
    \A n \in CallIdx :
        /\ calls[n].status = "pending" => n = Len(calls)
        /\ (calls[n].kind = "single" /\ bpc = "awaitItem" /\ n = Len(calls)) =>
              /\ calls[n].pos = i + k
              /\ \A p \in i..(i + k - 1) :
                    \E m \in SinglesAt(p) : m < n /\ calls[m].status # "pending"

\* C7 witness: the second single-item call of a failed chunk is pending.
C7_Witness ==
    /\ bpc = "awaitItem"
    /\ k = 1
    /\ Len(batch) >= 3
    /\ calls[Len(calls)].status = "pending"

\* C8: the failures list holds, in input order, one entry per single-item
\* call that threw, with that call's item and the text of what that call
\* threw (the message of an Error, else 'Unknown error').
C8_FailureOrder ==
    /\ Len(failures) = Len(FailedSingleSeq)
    /\ \A n \in 1..Len(failures) :
          LET c == FailedSingleSeq[n]
          IN /\ failures[n].item = items[c.pos + 1]
             /\ failures[n].item = c.arg[1]
             /\ failures[n].error =
                   IF c.err.isError THEN c.err.message ELSE "Unknown error"
    /\ \A n, m \in 1..Len(FailedSingleSeq) :
          n < m => FailedSingleSeq[n].pos < FailedSingleSeq[m].pos
    /\ Done => result.failures = failures

\* C8 witness: a finished run with two failures of the same chunk whose texts
\* differ from each other and from what the chunk's bulk call threw.
C8_Witness ==
    /\ Done
    /\ Len(result.failures) >= 2
    /\ result.failures[1].error = "Unknown error"
    /\ result.failures[2].error = "Not Found"
    /\ \E n \in BulkIdx : /\ calls[n].status = "threw"
                           /\ calls[n].err.isError
                           /\ Len(calls[n].arg) >= 2
                           /\ FailedSingleSeq[1].pos \in Covers(calls[n])
                           /\ FailedSingleSeq[2].pos \in Covers(calls[n])

(***************************************************************************)
(* EmailBuilder: values the builds are drawn over.                         *)
(***************************************************************************)
\* Addresses, one atom per character.
AddrValid == <<"a", "@", "b", ".", "c">>
AddrNoDot == <<"a", "@", "b">>
AddrSpace == <<"a", " ", "@", "b", ".", "c">>
AddrAccent == <<"U+00E9", "@", "b", ".", "c">>
Addresses == {AddrValid, AddrNoDot, AddrSpace, AddrAccent}

\* Subjects, one atom per character; "U+00E9" stands for the character of
\* that code point.
SubjectAscii == <<"H", "i">>
SubjectAccent == <<"H", "U+00E9">>
Subjects == {SubjectAscii, SubjectAccent}

\* Attachment paths: directory and file name.
PathPresent == <<"/tmp/", "a.txt">>
PathOther == <<"/tmp/", "b.png">>
PathMissing == <<"/tmp/", "gone.pdf">>
PathAbsent == <<"/tmp/", "lost.doc">>
ExistingFiles == {PathPresent, PathOther}

\* Message ids of inReplyTo; the second holds the character U+00E9.
MessageIdAscii == <<"<m1@mail.example>">>
MessageIdAccent == <<"<m", "U+00E9", "@mail.example>">>

\* Math.random().toString(36).substring(2): digits in base 36, none when
\* Math.random() returns 0.
RandomSuffixes == {<<>>, <<"k3x9">>, <<"p7q2">>}

BoundaryPrefix == "----=_NextPart_"

\* A text that reads as the delimiter line of the boundary with suffix sfx.
DelimiterText(sfx) == <<"--", BoundaryPrefix>> \o sfx

PlainBodies == {<<>>, <<"Hello">>, <<"Hello", CRLF>> \o DelimiterText(<<"k3x9">>)}
HtmlBodies == {Undefined, Some(<<>>), Some(<<"<p>Hello</p>">>),
               Some(DelimiterText(<<"p7q2">>) \o <<CRLF, "<p>Hello</p>">>)}
MimeTypes == {UndefinedMime, Some("text/plain"), Some("text/html"),
              Some("multipart/alternative")}

ParamSets ==
    [to : {<<>>, <<AddrValid>>, <<AddrNoDot>>, <<AddrValid, AddrNoDot>>,
           <<AddrAccent>>},
     cc : {Undefined, Some(<<AddrValid>>), Some(<<AddrNoDot>>)},
     bcc : {Undefined, Some(<<AddrSpace>>)},
     subject : Subjects,
     body : PlainBodies,
     htmlBody : HtmlBodies,
     mimeType : MimeTypes,
     inReplyTo : {Undefined, Some(MessageIdAscii), Some(MessageIdAccent)},
     attachments : {Undefined, Some(<<>>), Some(<<PathPresent>>),
                    Some(<<PathPresent, PathMissing>>),
                    Some(<<PathMissing, PathPresent>>),
                    Some(<<PathPresent, PathOther, PathMissing, PathAbsent>>)}]

(***************************************************************************)
(* validateEmail and validateEmailArray (validation.util.ts).              *)
(***************************************************************************)
Whitespace == {" ", "<TAB>", CRLF, LF}

\* /^[^\s@]+@[^\s@]+\.[^\s@]+$/ : one "@", not first; no whitespace; after
\* the "@" a "." with a character on each side of it.
validateEmail(email) ==
    \E a \in 1..Len(email) :
        /\ email[a] = "@"
        /\ a > 1
        /\ \A j \in 1..Len(email) : j # a => email[j] \notin (Whitespace \cup {"@"})
        /\ \E d \in (a + 2)..(Len(email) - 1) : email[d] = "."

\* validateEmailArray(emails): the message of the Error it throws, or the
\* empty string when it returns.
validateEmailArray(emails) ==
    LET bad == {n \in 1..Len(emails) : ~validateEmail(emails[n])}
    IN IF bad = {} THEN <<>>
       ELSE LET first == CHOOSE n \in bad : \A m \in bad : n <= m
            IN <<"Invalid email address: ">> \o emails[first]

\* A variant of ValidateRecipients that validates the to list only.
ValidateRecipients_ToOnly(p) == validateEmailArray(p.to)

\* Lines 35-37 (and 64-66, 93-95, 135-137): validate to, then cc and bcc
\* when given (an array is truthy, also when empty).
ValidateRecipients(p) ==
    LET t == validateEmailArray(p.to)
        c == IF p.cc.present THEN validateEmailArray(p.cc.v) ELSE <<>>
        b == IF p.bcc.present THEN validateEmailArray(p.bcc.v) ELSE <<>>
    IN IF Truthy(t) THEN t ELSE IF Truthy(c) THEN c ELSE b

(***************************************************************************)
(* encodeHeader (lines 20-27): Buffer.from(text).toString('base64').       *)
(***************************************************************************)
\* The UTF-16 code unit of a character of the model; a JavaScript string is
\* a sequence of code units.  "U+D83D" is a high surrogate and "U+DE00" a
\* low one: in this order they are the pair of U+1F600.
CharCode(ch) ==
    CASE ch = "H" -> 72
      [] ch = "i" -> 105
      [] ch = "U+00E9" -> 233
      [] ch = "U+20AC" -> 8364
      [] ch = "U+D83D" -> 55357
      [] ch = "U+DE00" -> 56832
      [] ch = "U+FFFD" -> 65533

IsHighSurrogate(u) == 55296 <= u /\ u <= 56319
IsLowSurrogate(u) == 56320 <= u /\ u <= 57343

\* The code points Buffer.from(text) encodes for a sequence of code units: a
\* surrogate pair is one code point, a surrogate without its partner is
\* replaced by U+FFFD.
RECURSIVE CodePoints(_)
CodePoints(units) ==
    IF units = <<>> THEN <<>>
    ELSE IF Len(units) >= 2 /\ IsHighSurrogate(units[1]) /\ IsLowSurrogate(units[2])
        THEN <<65536 + ((units[1] - 55296) * 1024) + (units[2] - 56320)>>
                 \o CodePoints(SubSeq(units, 3, Len(units)))
    ELSE IF IsHighSurrogate(units[1]) \/ IsLowSurrogate(units[1])
        THEN <<65533>> \o CodePoints(Tail(units))
    ELSE <<units[1]>> \o CodePoints(Tail(units))

\* The UTF-8 bytes of a code point.
Utf8(cp) ==
    IF cp < 128 THEN <<cp>>
    ELSE IF cp < 2048 THEN <<192 + (cp \div 64), 128 + (cp % 64)>>
    ELSE IF cp < 65536 THEN
        <<224 + (cp \div 4096), 128 + ((cp \div 64) % 64), 128 + (cp % 64)>>
    ELSE <<240 + (cp \div 262144), 128 + ((cp \div 4096) % 64),
           128 + ((cp \div 64) % 64), 128 + (cp % 64)>>

Utf8Bytes(text) ==
    LET cps == CodePoints([n \in 1..Len(text) |-> CharCode(text[n])])
    IN Concat([n \in 1..Len(cps) |-> Utf8(cps[n])])

Base64Alphabet ==
    <<"A", "B", "C", "D", "E", "F", "G", "H", "I", "J", "K", "L", "M",
      "N", "O", "P", "Q", "R", "S", "T", "U", "V", "W", "X", "Y", "Z",
      "a", "b", "c", "d", "e", "f", "g", "h", "i", "j", "k", "l", "m",
      "n", "o", "p", "q", "r", "s", "t", "u", "v", "w", "x", "y", "z",
      "0", "1", "2", "3", "4", "5", "6", "7", "8", "9", "+", "/">>

RECURSIVE Base64(_)
Base64(bytes) ==
    LET A == Base64Alphabet
    IN IF bytes = <<>> THEN <<>>
       ELSE IF Len(bytes) = 1 THEN
           <<A[(bytes[1] \div 4) + 1], A[(bytes[1] % 4) * 16 + 1], "=", "=">>
       ELSE IF Len(bytes) = 2 THEN
           <<A[(bytes[1] \div 4) + 1],
             A[(bytes[1] % 4) * 16 + (bytes[2] \div 16) + 1],
             A[(bytes[2] % 16) * 4 + 1], "=">>
       ELSE
           <<A[(bytes[1] \div 4) + 1],
             A[(bytes[1] % 4) * 16 + (bytes[2] \div 16) + 1],
             A[(bytes[2] % 16) * 4 + (bytes[3] \div 64) + 1],
             A[(bytes[3] % 64) + 1]>> \o Base64(SubSeq(bytes, 4, Len(bytes)))

\* A variant of HasNonAscii that tests /[^\x00-\xFF]/.
HasNonAscii_Latin1(text) == \E n \in 1..Len(text) : CharCode(text[n]) > 255

\* /[^\x00-\x7F]/.test(text)
HasNonAscii(text) == \E n \in 1..Len(text) : CharCode(text[n]) > 127

encodeHeader(text) ==
    IF HasNonAscii(text)
    THEN <<"=?UTF-8?B?">> \o Base64(Utf8Bytes(text)) \o <<"?=">>
    ELSE text

(***************************************************************************)
(* EmailBuilder: the four builds, as functions of the parameters.          *)
(***************************************************************************)
Returned(doc) == [status |-> "returned", doc |-> doc, error |-> <<>>]
Threw(message) == [status |-> "threw", doc |-> <<>>, error |-> message]

\* Lines 41-48 (and 70-77, 101-108): the array elements from 'From: me' to
\* 'MIME-Version: 1.0'; an element not given is the empty string.
CommonHeaders(p) ==
    << <<"From: me">>,
       <<"To: ">> \o Join(p.to, ", "),
       IF p.cc.present THEN <<"Cc: ">> \o Join(p.cc.v, ", ") ELSE <<>>,
       IF p.bcc.present THEN <<"Bcc: ">> \o Join(p.bcc.v, ", ") ELSE <<>>,
       <<"Subject: ">> \o encodeHeader(p.subject),
       IF p.inReplyTo.present /\ Truthy(p.inReplyTo.v)
           THEN <<"In-Reply-To: ">> \o p.inReplyTo.v ELSE <<>>,
       IF p.inReplyTo.present /\ Truthy(p.inReplyTo.v)
           THEN <<"References: ">> \o p.inReplyTo.v ELSE <<>>,
       <<"MIME-Version: 1.0">> >>

\* params.htmlBody || params.body
HtmlOrBody(p) ==
    IF p.htmlBody.present /\ Truthy(p.htmlBody.v) THEN p.htmlBody.v ELSE p.body

\* Lines 40-53: the emailParts array of buildPlainTextEmail, filtered.
PlainParts(p) ==
    FilterBoolean(CommonHeaders(p) \o
        << <<"Content-Type: text/plain; charset=UTF-8">>,
           <<"Content-Transfer-Encoding: 7bit">>,
           <<>>,
           p.body >>)

\* Lines 34-56.
buildPlainTextEmail(p) ==
    IF Truthy(ValidateRecipients(p)) THEN Threw(ValidateRecipients(p))
    ELSE Returned(Join(PlainParts(p), CRLF))

\* Lines 69-82: the emailParts array of buildHTMLEmail, filtered.
HtmlParts(p) ==
    FilterBoolean(CommonHeaders(p) \o
        << <<"Content-Type: text/html; charset=UTF-8">>,
           <<"Content-Transfer-Encoding: 7bit">>,
           <<>>,
           HtmlOrBody(p) >>)

\* Lines 63-85.
buildHTMLEmail(p) ==
    IF Truthy(ValidateRecipients(p)) THEN Threw(ValidateRecipients(p))
    ELSE Returned(Join(HtmlParts(p), CRLF))

\* Line 98: the boundary for the digits Math.random() gave.
Boundary(sfx) == <<BoundaryPrefix>> \o sfx

\* Lines 100-124: the emailParts array of buildMultipartEmail, filtered; b is
\* the boundary.
MultipartParts(p, b) ==
    FilterBoolean(CommonHeaders(p) \o
        << <<"Content-Type: multipart/alternative; boundary=\"">> \o b \o <<"\"">>,
           <<>>,
           <<"--">> \o b,
           <<"Content-Type: text/plain; charset=UTF-8">>,
           <<"Content-Transfer-Encoding: 7bit">>,
           <<>>,
           p.body,
           <<>>,
           <<"--">> \o b,
           <<"Content-Type: text/html; charset=UTF-8">>,
           <<"Content-Transfer-Encoding: 7bit">>,
           <<>>,
           HtmlOrBody(p),
           <<>>,
           <<"--">> \o b \o <<"--">> >>)

\* Lines 92-127.
buildMultipartEmail(p, sfx) ==
    IF Truthy(ValidateRecipients(p)) THEN Threw(ValidateRecipients(p))
    ELSE Returned(Join(MultipartParts(p, Boundary(sfx)), CRLF))

\* params.attachments && params.attachments.length > 0
HasAttachments(p) == p.attachments.present /\ Len(p.attachments.v) > 0

\* A variant of ExistsLoop that asks about the first listed path only.
ExistsLoop_FirstOnly(paths, fs) == IF paths = <<>> THEN <<>> ELSE <<Head(paths)>>

\* Lines 152-155: the paths the loop asks fs.existsSync about: the listed
\* paths up to the first that does not exist, that one included.
RECURSIVE ExistsLoop(_, _)
ExistsLoop(paths, fs) ==
    IF paths = <<>> THEN <<>>
    ELSE IF Head(paths) \in fs THEN <<Head(paths)>> \o ExistsLoop(Tail(paths), fs)
    ELSE <<Head(paths)>>

\* path.basename(filePath)
Basename(path) == <<path[Len(path)]>>

\* Lines 143-148, 164-179: the message transporter.sendMail generates with
\* newline: 'unix': header lines, then one part per attachment, every line
\* ended by LF.  Only what the options of lines 164-175 decide is kept.
NodemailerMessage(p) ==
    Join(FilterBoolean(
        << <<"From: me">>,
           <<"To: ">> \o Join(p.to, ", "),
           IF p.cc.present THEN <<"Cc: ">> \o Join(p.cc.v, ", ") ELSE <<>>,
           <<"Subject: ">> \o encodeHeader(p.subject),
           <<"MIME-Version: 1.0">>,
           <<"Content-Type: multipart/mixed">>,
           <<"Content-Type: text/plain; charset=utf-8">>,
           p.body >>
        \o [n \in 1..Len(p.attachments.v) |->
              <<"Content-Disposition: attachment; filename=">>
                  \o Basename(p.attachments.v[n])
                  \o <<LF, "Content-Transfer-Encoding: base64">>]), LF) \o <<LF>>

\* A variant of buildEmailWithAttachments without the test of lines 139-141.
buildEmailWithAttachments_NoGuard(p, fs) ==
    IF Truthy(ValidateRecipients(p)) THEN Threw(ValidateRecipients(p))
    ELSE LET asked == ExistsLoop(p.attachments.v, fs)
         IN IF asked # <<>> /\ asked[Len(asked)] \notin fs
            THEN Threw(<<"File does not exist: ">> \o asked[Len(asked)])
            ELSE Returned(NodemailerMessage(p))

\* Lines 134-182.
buildEmailWithAttachments(p, fs) ==
    IF Truthy(ValidateRecipients(p)) THEN Threw(ValidateRecipients(p))
    ELSE IF ~p.attachments.present \/ Len(p.attachments.v) = 0
        THEN Threw(<<"No attachments provided">>)
    ELSE LET asked == ExistsLoop(p.attachments.v, fs)
         IN IF asked[Len(asked)] \notin fs
            THEN Threw(<<"File does not exist: ">> \o asked[Len(asked)])
            ELSE Returned(NodemailerMessage(p))

\* The fs.existsSync calls of buildEmailWithAttachments, in order.
AttachmentLookups(p, fs) ==
    IF Truthy(ValidateRecipients(p)) THEN <<>>
    ELSE IF ~p.attachments.present \/ Len(p.attachments.v) = 0 THEN <<>>
    ELSE ExistsLoop(p.attachments.v, fs)

\* A variant of BuildMode that tests text/html before htmlBody.
BuildMode_HtmlFirst(p) ==
    IF HasAttachments(p) THEN "ATTACHMENT"
    ELSE LET mimeType == IF p.mimeType.present THEN p.mimeType.v ELSE "text/plain"
         IN IF mimeType = "text/html" THEN "HTML"
            ELSE IF p.htmlBody.present /\ Truthy(p.htmlBody.v)
                    /\ mimeType # "text/plain" THEN "MULTIPART"
            ELSE "PLAIN"

\* Lines 189-209: the branch buildEmail takes.
BuildMode(p) ==
    IF HasAttachments(p) THEN "ATTACHMENT"
    ELSE LET mimeType == IF p.mimeType.present THEN p.mimeType.v ELSE "text/plain"
         IN IF p.htmlBody.present /\ Truthy(p.htmlBody.v)
               /\ mimeType # "text/plain" THEN "MULTIPART"
            ELSE IF mimeType = "text/html" THEN "HTML"
            ELSE "PLAIN"

(***************************************************************************)
(* EmailBuilder.buildEmail, one action per branch.                         *)
(***************************************************************************)
\* The batch engine at rest, as the builder's specification keeps it.
BatchIdle ==
    /\ items = <<>>
    /\ batchSize = 1
    /\ i = 0
    /\ batch = <<>>
    /\ k = 0
    /\ successes = <<>>
    /\ failures = <<>>
    /\ bpc = "idle"
    /\ calls = <<>>
    /\ result = Running

InitBuild ==
    /\ params \in ParamSets
    /\ files = ExistingFiles
    /\ lookups = <<>>
    /\ mpc = "start"
    /\ mode = "none"
    /\ boundary = <<>>
    /\ built = NotBuilt
    /\ BatchIdle
    /\ HeaderIdle
    /\ SendIdle
    /\ ServiceIdle
    /\ ToolIdle
    /\ LabelIdle

\* Lines 191-193.
BuildAttachment ==
    /\ mpc = "start"
    /\ BuildMode(params) = "ATTACHMENT"
    /\ mode' = "ATTACHMENT"
    /\ built' = buildEmailWithAttachments(params, files)
    /\ lookups' = lookups \o AttachmentLookups(params, files)
    /\ mpc' = "done"
    /\ UNCHANGED <<params, files, boundary>>
    /\ UNCHANGED <<batchVars, headerVars, sendVars, serviceVars, toolVars, labelVars>>

\* Lines 200-202; Math.random() of line 98 is drawn when the build gets there.
BuildMultipart ==
    /\ mpc = "start"
    /\ BuildMode(params) = "MULTIPART"
    /\ mode' = "MULTIPART"
    /\ \E sfx \in RandomSuffixes :
        /\ built' = buildMultipartEmail(params, sfx)
        /\ boundary' = IF built'.status = "returned" THEN Boundary(sfx) ELSE <<>>
    /\ mpc' = "done"
    /\ UNCHANGED <<params, files, lookups>>
    /\ UNCHANGED <<batchVars, headerVars, sendVars, serviceVars, toolVars, labelVars>>

\* Lines 204-206.
BuildHTML ==
    /\ mpc = "start"
    /\ BuildMode(params) = "HTML"
    /\ mode' = "HTML"
    /\ built' = buildHTMLEmail(params)
    /\ mpc' = "done"
    /\ UNCHANGED <<params, files, lookups, boundary>>
    /\ UNCHANGED <<batchVars, headerVars, sendVars, serviceVars, toolVars, labelVars>>

\* Line 208.
BuildPlain ==
    /\ mpc = "start"
    /\ BuildMode(params) = "PLAIN"
    /\ mode' = "PLAIN"
    /\ built' = buildPlainTextEmail(params)
    /\ mpc' = "done"
    /\ UNCHANGED <<params, files, lookups, boundary>>
    /\ UNCHANGED <<batchVars, headerVars, sendVars, serviceVars, toolVars, labelVars>>

\* Lines 134-182: buildEmailWithAttachments, a public method, called by
\* itself and not through buildEmail.
CallBuildEmailWithAttachments ==
    /\ mpc = "start"
    /\ built' = buildEmailWithAttachments(params, files)
    /\ lookups' = lookups \o AttachmentLookups(params, files)
    /\ mpc' = "direct"
    /\ UNCHANGED <<params, files, mode, boundary>>
    /\ UNCHANGED <<batchVars, headerVars, sendVars, serviceVars, toolVars, labelVars>>

NextBuild ==
    \/ BuildAttachment
    \/ BuildMultipart
    \/ BuildHTML
    \/ BuildPlain
    \/ CallBuildEmailWithAttachments

SpecBuild == InitBuild /\ [][NextBuild]_vars

(***************************************************************************)
(* EmailBuilder.encodeHeader by itself, over every text of up to           *)
(* MaxHeaderLen code units.                                                *)
(***************************************************************************)
MaxHeaderLen == 3

HeaderChars == {"H", "i", "U+00E9", "U+20AC", "U+D83D", "U+DE00"}

HeaderTexts == UNION {[1..n -> HeaderChars] : n \in 0..MaxHeaderLen}

InitHeader ==
    /\ hdrIn \in HeaderTexts
    /\ hdrOut = <<>>
    /\ hpc = "start"
    /\ BatchIdle
    /\ BuildIdle
    /\ SendIdle
    /\ ServiceIdle
    /\ ToolIdle
    /\ LabelIdle

\* Lines 20-27.
EncodeHeader ==
    /\ hpc = "start"
    /\ hdrOut' = encodeHeader(hdrIn)
    /\ hpc' = "done"
    /\ UNCHANGED hdrIn
    /\ UNCHANGED <<batchVars, buildVars, sendVars, serviceVars, toolVars, labelVars>>

NextHeader == EncodeHeader

SpecHeader == InitHeader /\ [][NextHeader]_vars

(***************************************************************************)
(* EmailService.sendEmail (lines 77-110) and createDraft (lines 117-152),  *)
(* one action per step between awaits; the build between them is the      *)
(* buildEmail of SpecBuild.                                                *)
(***************************************************************************)
\* The builds sendEmail and createDraft are drawn over: every to list, body,
\* htmlBody, content mode and attachments list, without cc, bcc and
\* inReplyTo.
SendParamSets ==
    {p \in ParamSets : /\ p.cc = Undefined
                       /\ p.bcc = Undefined
                       /\ p.inReplyTo = Undefined
                       /\ p.subject = SubjectAscii}

ThreadIds == {Undefined, Some(<<>>), Some(<<"t1">>)}

\* What the Gmail API call resolves with (response.data.id, the empty text
\* when there is none) or rejects with.
ResponseIds == {<<>>, <<"m1">>}
RemoteErrors == {[isError |-> TRUE, message |-> <<"Backend Error">>],
                 [isError |-> FALSE, message |-> <<"ECONNRESET">>]}

\* Lines 81-85: Buffer.from(message).toString('base64') made URL-safe.  The
\* encoding is kept as a tag on the document it encodes.
EncodedMessage(doc) == [encoding |-> "base64url", of |-> doc]

\* Lines 87-93: the request body; threadId is set when params.threadId is
\* truthy.
MessageRequest(doc, tid) ==
    [raw |-> EncodedMessage(doc),
     threadId |-> IF tid.present /\ Truthy(tid.v) THEN tid ELSE Undefined]

ApiOf(method) ==
    IF method = "sendEmail" THEN "users.messages.send" ELSE "users.drafts.create"

\* Lines 101, 107 and 143, 149: the prefix of a failure and its no-id message.
FailurePrefix(method) ==
    IF method = "sendEmail" THEN "Failed to send email: " ELSE "Failed to create draft: "

NoIdMessage(method) ==
    IF method = "sendEmail" THEN "No message ID returned" ELSE "No draft ID returned"

SentId(id) == [status |-> "returned", id |-> id, error |-> <<>>]
SendThrew(message) == [status |-> "threw", id |-> <<>>, error |-> message]

InitSend ==
    /\ params \in SendParamSets
    /\ files = ExistingFiles
    /\ lookups = <<>>
    /\ mpc = "idle"
    /\ mode = "none"
    /\ boundary = <<>>
    /\ built = NotBuilt
    /\ op \in {"sendEmail", "createDraft"}
    /\ threadId \in ThreadIds
    /\ authenticated \in BOOLEAN
    /\ spc = "start"
    /\ remote = <<>>
    /\ buildCalls = 0
    /\ sent = NotSent
    /\ BatchIdle
    /\ HeaderIdle
    /\ ServiceIdle
    /\ ToolIdle
    /\ LabelIdle

\* Lines 78 / 118 with lines 21-37: getGmailAPI throws when not authenticated.
SendNotAuthenticated ==
    /\ spc = "start"
    /\ ~authenticated
    /\ sent' = SendThrew(<<"Not authenticated. Please run authentication first.">>)
    /\ spc' = "done"
    /\ UNCHANGED <<op, threadId, authenticated, remote, buildCalls>>
    /\ UNCHANGED <<batchVars, buildVars, headerVars, serviceVars, toolVars, labelVars>>

\* Lines 78-79 / 118-119: getGmailAPI returns, buildEmail(params) is called.
SendCallBuild ==
    /\ spc = "start"
    /\ authenticated
    /\ mpc' = "start"
    /\ buildCalls' = buildCalls + 1
    /\ spc' = "building"
    /\ UNCHANGED <<op, threadId, authenticated, remote, sent>>
    /\ UNCHANGED <<params, files, lookups, mode, boundary, built>>
    /\ UNCHANGED <<batchVars, headerVars, serviceVars, toolVars, labelVars>>

\* A variant of SendBuildThrew that catches the build's error and issues the
\* remote call with an empty message.
SendBuildThrew_SendAnyway ==
    /\ spc = "building"
    /\ mpc = "done"
    /\ built.status = "threw"
    /\ remote' = Append(remote, [api |-> ApiOf(op), body |-> MessageRequest(<<>>, threadId)])
    /\ spc' = "calling"
    /\ UNCHANGED <<op, threadId, authenticated, buildCalls, sent>>
    /\ UNCHANGED <<batchVars, buildVars, headerVars, serviceVars, toolVars, labelVars>>

\* Line 79 / 119: the await of buildEmail throws; it stands outside the try,
\* so the method rejects with the build's error.
SendBuildThrew ==
    /\ spc = "building"
    /\ mpc = "done"
    /\ built.status = "threw"
    /\ sent' = SendThrew(built.error)
    /\ spc' = "done"
    /\ UNCHANGED <<op, threadId, authenticated, remote, buildCalls>>
    /\ UNCHANGED <<batchVars, buildVars, headerVars, serviceVars, toolVars, labelVars>>

\* Lines 79-99 / 119-141: buildEmail returned; encode the document and issue
\* gmail.users.messages.send or gmail.users.drafts.create.
SendIssue ==
    /\ spc = "building"
    /\ mpc = "done"
    /\ built.status = "returned"
    /\ remote' = Append(remote, [api |-> ApiOf(op),
                                 body |-> MessageRequest(built.doc, threadId)])
    /\ spc' = "calling"
    /\ UNCHANGED <<op, threadId, authenticated, buildCalls, sent>>
    /\ UNCHANGED <<batchVars, buildVars, headerVars, serviceVars, toolVars, labelVars>>

\* Lines 96-108 / 132-150: the call resolves; without an id the Error of
\* line 101 / 143 is thrown inside the try and wrapped again by the catch.
SendResolve ==
    /\ spc = "calling"
    /\ \E id \in ResponseIds :
        sent' = IF Truthy(id) THEN SentId(id)
                ELSE SendThrew(<<FailurePrefix(op), FailurePrefix(op), NoIdMessage(op)>>)
    /\ spc' = "done"
    /\ UNCHANGED <<op, threadId, authenticated, remote, buildCalls>>
    /\ UNCHANGED <<batchVars, buildVars, headerVars, serviceVars, toolVars, labelVars>>

\* Lines 105-108 / 147-150: the call rejects.
SendReject ==
    /\ spc = "calling"
    /\ \E err \in RemoteErrors :
        sent' = SendThrew(<<FailurePrefix(op)>>
                              \o (IF err.isError THEN err.message ELSE <<"Unknown error">>))
    /\ spc' = "done"
    /\ UNCHANGED <<op, threadId, authenticated, remote, buildCalls>>
    /\ UNCHANGED <<batchVars, buildVars, headerVars, serviceVars, toolVars, labelVars>>

NextSend ==
    \/ SendNotAuthenticated
    \/ SendCallBuild
    \/ BuildAttachment
    \/ BuildMultipart
    \/ BuildHTML
    \/ BuildPlain
    \/ SendBuildThrew
    \/ SendIssue
    \/ SendResolve
    \/ SendReject

SpecSend == InitSend /\ [][NextSend]_vars

(***************************************************************************)
(* EmailService.batchModifyEmails (lines 480-490) and batchDeleteEmails    *)
(* (lines 498-504): processBatches with the processFn                      *)
(*     (batch) => Promise.all(batch.map((id) => this.modifyEmail(id)))     *)
(* and its remote calls, one per message.  Promise.all resolves when every *)
(* call of the chunk has resolved and rejects as soon as one of them       *)
(* rejects, whatever the state of the others.                              *)
(***************************************************************************)
MessageIds == <<"m1", "m2", "m3", "m4">>

\* The messageIds parameter: lists of distinct ids, the empty list included.
ServiceItemLists == {SubSeq(MessageIds, 1, n) : n \in 0..Len(MessageIds)}

\* The batchSize parameter: a number, not validated by the service.
ServiceBatchSizes == {-1, 0, 1, 2, 3}

\* What the Gmail API rejects a per-message call with.
NotFoundMessage == "Requested entity was not found."
RateLimitMessage == "Rate Limit Exceeded"

\* A remote call as the history keeps it: chunk is the index of line 451 at
\* which it was issued.
RemoteCall(id, kind, chunk) ==
    [id |-> id, kind |-> kind, chunk |-> chunk, status |-> "pending", err |-> ""]

\* A variant of WrappedError that throws the remote message as it came.
WrappedError_Bare(method, msg) == [isError |-> TRUE, message |-> msg]

\* Lines 344-347 and 359-362: the Error modifyEmail or deleteEmail throws
\* when its remote call rejects with message msg.
WrappedError(method, msg) ==
    [isError |-> TRUE,
     message |-> (IF method = "modify" THEN "Failed to modify email: "
                  ELSE "Failed to delete email: ") \o msg]

PendingCalls == {n \in 1..Len(rcalls) : rcalls[n].status = "pending"}

\* The remote call n is one of the bulk attempt processBatches is awaiting.
AwaitedBulk(n) ==
    bpc = "awaitBulk" /\ rcalls[n].kind = "bulk" /\ rcalls[n].chunk = i

\* The remote call n is the single-item call processBatches is awaiting.
AwaitedSingle(n) ==
    bpc = "awaitItem" /\ rcalls[n].kind = "single" /\ n = Len(rcalls)

\* Every call of the awaited bulk attempt other than n has resolved.
LastOfBulk(n) ==
    \A m \in 1..Len(rcalls) :
        (m # n /\ rcalls[m].kind = "bulk" /\ rcalls[m].chunk = i) =>
            rcalls[m].status = "ok"

InitService ==
    /\ items \in ServiceItemLists
    /\ batchSize \in ServiceBatchSizes
    /\ svcOp \in {"modify", "delete"}
    /\ i = 0
    /\ batch = <<>>
    /\ k = 0
    /\ successes = <<>>
    /\ failures = <<>>
    /\ bpc = "loop"
    /\ calls = <<>>
    /\ result = Running
    /\ rcalls = <<>>
    /\ deleted = {}
    /\ BuildIdle
    /\ HeaderIdle
    /\ SendIdle
    /\ ToolIdle
    /\ LabelIdle

\* Lines 454 and 485-487 / 500-502: processFn(batch) issues one remote call
\* per message of the chunk, all at once; Promise.all of no call at all is
\* resolved, and the loop steps.
IssueBulk(chunk) ==
    /\ rcalls' = rcalls \o [n \in 1..Len(chunk) |-> RemoteCall(chunk[n], "bulk", i)]
    /\ IF chunk = <<>>
       THEN i' = NextIndex(i) /\ bpc' = "loop"
       ELSE i' = i /\ bpc' = "awaitBulk"
    /\ UNCHANGED successes

\* Lines 451-454: the loop test holds; slice the chunk and call processFn.
ServiceBulkIssue ==
    /\ bpc = "loop"
    /\ i < Len(items)
    /\ batch' = ChunkAt(i)
    /\ IssueBulk(batch')
    /\ UNCHANGED <<items, batchSize, k, failures, calls, result>>
    /\ UNCHANGED <<svcOp, deleted>>
    /\ UNCHANGED <<buildVars, headerVars, sendVars, toolVars, labelVars>>

\* A remote call resolves.  A delete of a message that is deleted already
\* does not.  The last call of the awaited bulk attempt to resolve resolves
\* it (lines 454-455); the awaited single-item call resolves its await
\* (lines 460-461); any other call is one nobody awaits any more.
RemoteResolve ==
    /\ \E n \in PendingCalls :
        /\ svcOp = "delete" => rcalls[n].id \notin deleted
        /\ rcalls' = [rcalls EXCEPT ![n].status = "ok"]
        /\ deleted' = IF svcOp = "delete" THEN deleted \cup {rcalls[n].id} ELSE deleted
        /\ IF AwaitedBulk(n) /\ LastOfBulk(n)
           THEN /\ successes' = PushAll(successes, batch)
                /\ i' = NextIndex(i)
                /\ bpc' = "loop"
                /\ UNCHANGED <<k, failures>>
           ELSE IF AwaitedSingle(n)
           THEN /\ successes' = PushSuccess(successes, batch[k + 1])
                /\ k' = k + 1
                /\ bpc' = "fallback"
                /\ UNCHANGED <<i, failures>>
           ELSE UNCHANGED <<i, k, successes, failures, bpc>>
    /\ UNCHANGED <<items, batchSize, batch, calls, result, svcOp>>
    /\ UNCHANGED <<buildVars, headerVars, sendVars, toolVars, labelVars>>

\* The messages the remote side rejects call n with: not found for a delete
\* of a message that is deleted already.
RejectMessages(n) ==
    IF svcOp = "delete" /\ rcalls[n].id \in deleted
    THEN {NotFoundMessage} ELSE {RateLimitMessage}

\* A remote call rejects.  A call of the awaited bulk attempt rejects it at
\* once (line 456), with calls of the chunk still pending or not; the awaited
\* single-item call has its item recorded as failed (lines 462-465).
RemoteReject ==
    /\ \E n \in PendingCalls : \E msg \in RejectMessages(n) :
        /\ rcalls' = [rcalls EXCEPT ![n].status = "threw", ![n].err = msg]
        /\ IF AwaitedBulk(n)
           THEN /\ k' = 0
                /\ bpc' = "fallback"
                /\ UNCHANGED <<i, successes, failures>>
           ELSE IF AwaitedSingle(n)
           THEN /\ failures' = PushFailure(failures, batch[k + 1], WrappedError(svcOp, msg))
                /\ k' = k + 1
                /\ bpc' = "fallback"
                /\ UNCHANGED <<i, successes>>
           ELSE UNCHANGED <<i, k, successes, failures, bpc>>
    /\ UNCHANGED <<items, batchSize, batch, calls, result, svcOp, deleted>>
    /\ UNCHANGED <<buildVars, headerVars, sendVars, toolVars, labelVars>>

\* Lines 458-460: the for-of loop has an item left; processFn([item]) issues
\* its one remote call.
ServiceItemIssue ==
    /\ bpc = "fallback"
    /\ k < Len(batch)
    /\ rcalls' = Append(rcalls, RemoteCall(batch[k + 1], "single", i))
    /\ bpc' = "awaitItem"
    /\ UNCHANGED <<items, batchSize, i, batch, k, successes, failures, calls, result>>
    /\ UNCHANGED <<svcOp, deleted>>
    /\ UNCHANGED <<buildVars, headerVars, sendVars, toolVars, labelVars>>

\* Lines 458, 451: the for-of loop is exhausted; the outer loop steps.
ServiceFallbackEnd ==
    /\ bpc = "fallback"
    /\ ~(k < Len(batch))
    /\ i' = NextIndex(i)
    /\ bpc' = "loop"
    /\ UNCHANGED <<items, batchSize, batch, k, successes, failures, calls, result>>
    /\ UNCHANGED serviceVars
    /\ UNCHANGED <<buildVars, headerVars, sendVars, toolVars, labelVars>>

\* Lines 451, 470: the loop test fails; return the result.
ServiceReturn ==
    /\ bpc = "loop"
    /\ ~(i < Len(items))
    /\ result' = [status |-> "returned", successes |-> Len(successes),
                  failures |-> failures]
    /\ bpc' = "done"
    /\ UNCHANGED <<items, batchSize, i, batch, k, successes, failures, calls>>
    /\ UNCHANGED serviceVars
    /\ UNCHANGED <<buildVars, headerVars, sendVars, toolVars, labelVars>>

NextService ==
    \/ ServiceBulkIssue
    \/ RemoteResolve
    \/ RemoteReject
    \/ ServiceItemIssue
    \/ ServiceFallbackEnd
    \/ ServiceReturn

\* Every remote call settles and the event loop runs every continuation that
\* is ready.
SpecService == InitService /\ [][NextService]_vars /\ WF_vars(NextService)

(***************************************************************************)
(* handleTool, cases batch_modify_emails and batch_delete_emails           *)
(* (tool-handlers.ts lines 333-386), with the schemas of tool.schemas.ts   *)
(* lines 176-189 and the catch of lines 600-611.                           *)
(***************************************************************************)
\* A number argument, as a fraction: 5/2 is 2.5.
Num(n, d) == [num |-> n, den |-> d]
GivenNumber(n, d) == [present |-> TRUE, v |-> Num(n, d)]
AbsentNumber == [present |-> FALSE, v |-> Num(0, 1)]

\* .max(100) and .default(50) of lines 179 and 187.
MaxToolBatchSize == 100
DefaultBatchSize == 50

\* The batchSize arguments drawn: none, 0, -1, 2.5, -2.5, 1, 2, 100, 101.
ToolBatchSizes ==
    {AbsentNumber, GivenNumber(0, 1), GivenNumber(-1, 1), GivenNumber(5, 2),
     GivenNumber(-5, 2), GivenNumber(1, 1), GivenNumber(2, 1),
     GivenNumber(MaxToolBatchSize, 1), GivenNumber(MaxToolBatchSize + 1, 1)}

ToolArgSets ==
    [tool : {"batch_modify_emails", "batch_delete_emails"},
     messageIds : {<<>>, <<"m1">>, <<"m1", "m2">>, <<"m1", "m2", "m3">>},
     batchSize : ToolBatchSizes]

\* z.array(z.string().min(1)).min(1)
MessageIdsIssues(ids) ==
    IF Len(ids) >= 1 THEN <<>>
    ELSE <<"messageIds: Array must contain at least 1 element(s)">>

\* A variant of BatchSizeIssues without .max(100).
BatchSizeIssues_NoMax(arg) ==
    IF ~arg.present THEN <<>>
    ELSE (IF arg.v.num % arg.v.den = 0 THEN <<>>
          ELSE <<"batchSize: Expected integer, received float">>)
      \o (IF arg.v.num > 0 THEN <<>>
          ELSE <<"batchSize: Number must be greater than 0">>)

\* z.number().int().positive().max(100).optional(): the issues of the three
\* checks, each made whatever the others found.
BatchSizeIssues(arg) ==
    IF ~arg.present THEN <<>>
    ELSE (IF arg.v.num % arg.v.den = 0 THEN <<>>
          ELSE <<"batchSize: Expected integer, received float">>)
      \o (IF arg.v.num > 0 THEN <<>>
          ELSE <<"batchSize: Number must be greater than 0">>)
      \o (IF arg.v.num <= MaxToolBatchSize * arg.v.den THEN <<>>
          ELSE <<"batchSize: Number must be less than or equal to 100">>)

\* Schema.parse(args): the issues of the ZodError it throws, none when it
\* returns.
ParseIssues(args) == MessageIdsIssues(args.messageIds) \o BatchSizeIssues(args.batchSize)

\* .optional().default(50)
ParsedBatchSize(arg) ==
    IF arg.present THEN arg.v.num \div arg.v.den ELSE DefaultBatchSize

InitTool ==
    /\ toolArgs \in ToolArgSets
    /\ tpc = "start"
    /\ toolResp = <<>>
    /\ BatchIdle
    /\ ServiceIdle
    /\ BuildIdle
    /\ HeaderIdle
    /\ SendIdle
    /\ LabelIdle

\* Lines 334-335 / 362 and 600-611: parse throws a ZodError; the response is
\* the validation error.
ToolValidationError ==
    /\ tpc = "start"
    /\ ParseIssues(toolArgs) # <<>>
    /\ toolResp' = [kind |-> "validation",
                    text |-> <<"Validation error: ">> \o ParseIssues(toolArgs)]
    /\ tpc' = "done"
    /\ UNCHANGED toolArgs
    /\ UNCHANGED <<batchVars, serviceVars, buildVars, headerVars, sendVars, labelVars>>

\* Lines 334-340 / 362-363: parse returns; batchModifyEmails or
\* batchDeleteEmails is called with the parsed messageIds and batchSize.
ToolCallService ==
    /\ tpc = "start"
    /\ ParseIssues(toolArgs) = <<>>
    /\ items' = toolArgs.messageIds
    /\ batchSize' = ParsedBatchSize(toolArgs.batchSize)
    /\ svcOp' = IF toolArgs.tool = "batch_modify_emails" THEN "modify" ELSE "delete"
    /\ bpc' = "loop"
    /\ tpc' = "running"
    /\ UNCHANGED <<toolArgs, toolResp>>
    /\ UNCHANGED <<i, batch, k, successes, failures, calls, result, rcalls, deleted>>
    /\ UNCHANGED <<buildVars, headerVars, sendVars, labelVars>>

\* Lines 342-358 / 365-381: the service has returned; the response reports
\* the count of successes and the failures.
ToolRespond ==
    /\ tpc = "running"
    /\ bpc = "done"
    /\ toolResp' = [kind |-> "result",
                    text |-> <<IF toolArgs.tool = "batch_modify_emails"
                               THEN "Batch label modification complete."
                               ELSE "Batch delete operation complete.">>,
                    successes |-> result.successes,
                    failed |-> result.failures]
    /\ tpc' = "done"
    /\ UNCHANGED toolArgs
    /\ UNCHANGED <<batchVars, serviceVars, buildVars, headerVars, sendVars, labelVars>>

NextTool ==
    \/ ToolValidationError
    \/ ToolCallService
    \/ ServiceBulkIssue
    \/ RemoteResolve
    \/ RemoteReject
    \/ ServiceItemIssue
    \/ ServiceFallbackEnd
    \/ ServiceReturn
    \/ ToolRespond

SpecTool == InitTool /\ [][NextTool]_vars

(***************************************************************************)
(* LabelService (gmail-api.client.ts lines 709-883) over a remote label    *)
(* store, and handleTool's case get_or_create_label (tool-handlers.ts      *)
(* lines 460-478).  Tool calls are served concurrently: each caller is at  *)
(* one of its awaits, and the steps of different callers interleave.  The  *)
(* remote is reliable: a call is rejected only for what the store holds.   *)
(***************************************************************************)
\* How many get_or_create_label calls are in progress together.
NumCallers == 2
Callers == 1..NumCallers

Label(id, name, type) == [id |-> id, name |-> name, type |-> type]
NoLabel == Label("", "", "")
InboxLabel == Label("INBOX", "INBOX", "system")

\* What the account holds at the start: the system label, and perhaps one
\* user label.
LabelStores ==
    {{InboxLabel},
     {InboxLabel, Label("Label_1", "work", "user")},
     {InboxLabel, Label("Label_1", "Work", "user")}}

\* The name argument of get_or_create_label.
ToolLabelNames == {"", "Work", "work", "inbox"}

\* The id argument of deleteLabel.
DeleteIds == {"INBOX", "Label_1", "Label_404"}

\* The id the remote gives the label caller c creates.
NewId(c) == IF c = 1 THEN "Label_2" ELSE IF c = 2 THEN "Label_3" ELSE "Label_4"

\* String.prototype.toLowerCase on the names drawn.
ToLowerCase(name) ==
    CASE name = "Work" -> "work"
      [] name = "INBOX" -> "inbox"
      [] OTHER -> name

\* Error messages are sequences of pieces; includes('404') and
\* includes('already exists') look at the pieces.
Includes404(msg) ==
    \E n \in 1..Len(msg) : msg[n] \in {"Label_404", "Request failed with status code 404"}
IncludesAlreadyExists(msg) ==
    \E n \in 1..Len(msg) : msg[n] \in {"Label already exists", "\" already exists. Please use a different name."}

\* What the remote rejects labels.get of an unknown id and labels.create of
\* a taken name with.
RemoteNotFoundMessages ==
    {<<"Requested entity was not found.">>, <<"Request failed with status code 404">>}
RemoteConflictMessages ==
    {<<"Label name exists or conflicts">>, <<"Label already exists">>}

LabelResult(label) == [kind |-> "label", label |-> label, message |-> <<>>]
LabelError(msg) == [kind |-> "error", label |-> NoLabel, message |-> msg]
NoResult == [kind |-> "none", label |-> NoLabel, message |-> <<>>]

LabelCall(c, method, arg) == [caller |-> c, method |-> method, arg |-> arg]

\* Lines 852-855: the first label of the list whose name equals the name
\* asked for, both in lower case; the labels that match.
FindLabelByName(list, name) ==
    {l \in list : ToLowerCase(l.name) = ToLowerCase(name)}

\* Lines 735-741: what createLabel throws when labels.create rejects with
\* msg.
CreateLabelError(name, msg) ==
    IF IncludesAlreadyExists(msg)
    THEN <<"Label \"", name, "\" already exists. Please use a different name.">>
    ELSE <<"Failed to create label: ">> \o msg

\* Lines 879-882: the catch of getOrCreateLabel.
GetOrCreateError(msg) == <<"Failed to get or create label: ">> \o msg

\* A variant of DeleteLabelGot without the test of line 795.
DeleteLabelGot_NoTypeTest(label) == "delete"

\* Lines 795-797: after labels.get, a system label makes deleteLabel throw;
\* any other label goes on to labels.delete.
DeleteLabelGot(label) == IF label.type = "system" THEN "throw" ELSE "delete"

\* Lines 803-808: the catch of deleteLabel.
DeleteLabelError(id, msg) ==
    IF Includes404(msg)
    THEN <<"Label with ID \"", id, "\" not found.">>
    ELSE <<"Failed to delete label: ">> \o msg

\* Line 468: the word of the response.
ActionWord(found, name) ==
    IF found.name = name THEN "found existing" ELSE "created new"

\* Lines 600-611: the ZodError of GetOrCreateLabelSchema.parse (line 109,
\* name: z.string().min(1)).
NameIssues(name) ==
    IF name = "" THEN <<"name: String must contain at least 1 character(s)">> ELSE <<>>

InitLabel ==
    /\ labels \in LabelStores
    /\ lcalls = {}
    /\ gname \in [Callers -> ToolLabelNames]
    /\ gpc = [c \in Callers |-> "start"]
    /\ gheld = [c \in Callers |-> {}]
    /\ gres = [c \in Callers |-> NoResult]
    /\ gresp = [c \in Callers |-> [kind |-> "none", action |-> "", text |-> <<>>]]
    /\ dId \in DeleteIds
    /\ dpc = "start"
    /\ dheld = NoLabel
    /\ dres = NoResult
    /\ BatchIdle
    /\ ServiceIdle
    /\ BuildIdle
    /\ HeaderIdle
    /\ SendIdle
    /\ ToolIdle

\* Lines 461-462 and 600-611: parse throws; the response is the validation
\* error.
GetValidationError(c) ==
    /\ gpc[c] = "start"
    /\ NameIssues(gname[c]) # <<>>
    /\ gresp' = [gresp EXCEPT ![c] = [kind |-> "validation", action |-> "",
                                      text |-> <<"Validation error: ">> \o NameIssues(gname[c])]]
    /\ gpc' = [gpc EXCEPT ![c] = "done"]
    /\ UNCHANGED <<labels, lcalls, gname, gheld, gres, dId, dpc, dheld, dres>>
    /\ UNCHANGED <<batchVars, buildVars, headerVars, sendVars, serviceVars, toolVars>>

\* Lines 461-463, 872, 852 and 820-822: getOrCreateLabel calls
\* findLabelByName, which calls listLabels, which issues labels.list.
GetIssueList(c) ==
    /\ gpc[c] = "start"
    /\ NameIssues(gname[c]) = <<>>
    /\ lcalls' = lcalls \cup {LabelCall(c, "list", "")}
    /\ gpc' = [gpc EXCEPT ![c] = "listing"]
    /\ UNCHANGED <<labels, gname, gheld, gres, gresp, dId, dpc, dheld, dres>>
    /\ UNCHANGED <<batchVars, buildVars, headerVars, sendVars, serviceVars, toolVars>>

\* Lines 824-858 and 874-876: labels.list resolves with what the store
\* holds and a label of that name is among it; getOrCreateLabel returns it.
GetFound(c) ==
    /\ gpc[c] = "listing"
    /\ FindLabelByName(labels, gname[c]) # {}
    /\ gheld' = [gheld EXCEPT ![c] = labels]
    /\ \E l \in FindLabelByName(labels, gname[c]) :
           gres' = [gres EXCEPT ![c] = LabelResult(l)]
    /\ gpc' = [gpc EXCEPT ![c] = "returned"]
    /\ UNCHANGED <<labels, lcalls, gname, gresp, dId, dpc, dheld, dres>>
    /\ UNCHANGED <<batchVars, buildVars, headerVars, sendVars, serviceVars, toolVars>>

\* Lines 824-858, 878 and 725-732: labels.list resolves and no label has
\* that name; getOrCreateLabel calls createLabel, which issues
\* labels.create.
GetIssueCreate(c) ==
    /\ gpc[c] = "listing"
    /\ FindLabelByName(labels, gname[c]) = {}
    /\ gheld' = [gheld EXCEPT ![c] = labels]
    /\ lcalls' = lcalls \cup {LabelCall(c, "create", gname[c])}
    /\ gpc' = [gpc EXCEPT ![c] = "creating"]
    /\ UNCHANGED <<labels, gname, gres, gresp, dId, dpc, dheld, dres>>
    /\ UNCHANGED <<batchVars, buildVars, headerVars, sendVars, serviceVars, toolVars>>

\* Line 734: labels.create resolves with the label the remote made, named
\* as asked.  The remote makes it when no label has exactly that name.
CreateResolve(c) ==
    /\ gpc[c] = "creating"
    /\ \A l \in labels : l.name # gname[c]
    /\ labels' = labels \cup {Label(NewId(c), gname[c], "user")}
    /\ gres' = [gres EXCEPT ![c] = LabelResult(Label(NewId(c), gname[c], "user"))]
    /\ gpc' = [gpc EXCEPT ![c] = "returned"]
    /\ UNCHANGED <<lcalls, gname, gheld, gresp, dId, dpc, dheld, dres>>
    /\ UNCHANGED <<batchVars, buildVars, headerVars, sendVars, serviceVars, toolVars>>

\* Lines 735-741 and 879-882: labels.create rejects; createLabel and then
\* getOrCreateLabel wrap the error.  The remote may reject when a label has
\* that name in some spelling of its case.
CreateReject(c) ==
    /\ gpc[c] = "creating"
    /\ FindLabelByName(labels, gname[c]) # {}
    /\ \E msg \in RemoteConflictMessages :
           gres' = [gres EXCEPT ![c] =
                        LabelError(GetOrCreateError(CreateLabelError(gname[c], msg)))]
    /\ gpc' = [gpc EXCEPT ![c] = "returned"]
    /\ UNCHANGED <<labels, lcalls, gname, gheld, gresp, dId, dpc, dheld, dres>>
    /\ UNCHANGED <<batchVars, buildVars, headerVars, sendVars, serviceVars, toolVars>>

\* Lines 468-477 and 613-621: the response, from the label returned or from
\* the error thrown.
GetRespond(c) ==
    /\ gpc[c] = "returned"
    /\ gresp' = [gresp EXCEPT ![c] =
                    IF gres[c].kind = "label"
                    THEN [kind |-> "result",
                          action |-> ActionWord(gres[c].label, gname[c]),
                          text |-> <<"Successfully ", ActionWord(gres[c].label, gname[c]),
                                     " label:\nID: ", gres[c].label.id,
                                     "\nName: ", gres[c].label.name,
                                     "\nType: ", gres[c].label.type>>]
                    ELSE [kind |-> "error", action |-> "",
                          text |-> <<"Error: ">> \o gres[c].message]]
    /\ gpc' = [gpc EXCEPT ![c] = "done"]
    /\ UNCHANGED <<labels, lcalls, gname, gheld, gres, dId, dpc, dheld, dres>>
    /\ UNCHANGED <<batchVars, buildVars, headerVars, sendVars, serviceVars, toolVars>>

\* Lines 790-793: deleteLabel issues labels.get.
DeleteIssueGet ==
    /\ dpc = "start"
    /\ lcalls' = lcalls \cup {LabelCall(0, "get", dId)}
    /\ dpc' = "getting"
    /\ UNCHANGED <<labels, gname, gpc, gheld, gres, gresp, dId, dheld, dres>>
    /\ UNCHANGED <<batchVars, buildVars, headerVars, sendVars, serviceVars, toolVars>>

\* Lines 803-808: labels.get rejects, no label has that id.
DeleteGetReject ==
    /\ dpc = "getting"
    /\ \A l \in labels : l.id # dId
    /\ \E msg \in RemoteNotFoundMessages :
           dres' = LabelError(DeleteLabelError(dId, msg))
    /\ dpc' = "done"
    /\ UNCHANGED <<labels, lcalls, gname, gpc, gheld, gres, gresp, dId, dheld>>
    /\ UNCHANGED <<batchVars, buildVars, headerVars, sendVars, serviceVars, toolVars>>

\* Lines 795-797 and 803-808: labels.get resolves with a label that
\* deleteLabel refuses; the error it throws is caught and wrapped.
DeleteRefuse ==
    /\ dpc = "getting"
    /\ \E l \in labels :
           /\ l.id = dId
           /\ DeleteLabelGot(l) = "throw"
           /\ dheld' = l
    /\ dres' = LabelError(DeleteLabelError(dId,
                   <<"Cannot delete system label with ID \"", dId, "\".">>))
    /\ dpc' = "done"
    /\ UNCHANGED <<labels, lcalls, gname, gpc, gheld, gres, gresp, dId>>
    /\ UNCHANGED <<batchVars, buildVars, headerVars, sendVars, serviceVars, toolVars>>

\* Lines 799-802: labels.get resolves with a label deleteLabel goes on
\* with; it issues labels.delete.
DeleteIssueDelete ==
    /\ dpc = "getting"
    /\ \E l \in labels :
           /\ l.id = dId
           /\ DeleteLabelGot(l) = "delete"
           /\ dheld' = l
    /\ lcalls' = lcalls \cup {LabelCall(0, "delete", dId)}
    /\ dpc' = "deleting"
    /\ UNCHANGED <<labels, gname, gpc, gheld, gres, gresp, dId, dres>>
    /\ UNCHANGED <<batchVars, buildVars, headerVars, sendVars, serviceVars, toolVars>>

\* Lines 799-803: labels.delete resolves, the label is gone; deleteLabel
\* returns.
DeleteResolve ==
    /\ dpc = "deleting"
    /\ labels' = {l \in labels : l.id # dId}
    /\ dres' = [kind |-> "deleted", label |-> NoLabel, message |-> <<>>]
    /\ dpc' = "done"
    /\ UNCHANGED <<lcalls, gname, gpc, gheld, gres, gresp, dId, dheld>>
    /\ UNCHANGED <<batchVars, buildVars, headerVars, sendVars, serviceVars, toolVars>>

NextLabel ==
    \/ \E c \in Callers : GetValidationError(c)
    \/ \E c \in Callers : GetIssueList(c)
    \/ \E c \in Callers : GetFound(c)
    \/ \E c \in Callers : GetIssueCreate(c)
    \/ \E c \in Callers : CreateResolve(c)
    \/ \E c \in Callers : CreateReject(c)
    \/ \E c \in Callers : GetRespond(c)
    \/ DeleteIssueGet
    \/ DeleteGetReject
    \/ DeleteRefuse
    \/ DeleteIssueDelete
    \/ DeleteResolve

SpecLabel == InitLabel /\ [][NextLabel]_vars

(***************************************************************************)
(* Claims about the message builder, checked under SpecBuild.              *)
(***************************************************************************)
Built == mpc = "done"

\* The lines of a document: its text cut at every CRLF.
RECURSIVE SplitLines(_, _)
SplitLines(text, line) ==
    IF text = <<>> THEN <<line>>
    ELSE IF Head(text) = CRLF THEN <<line>> \o SplitLines(Tail(text), <<>>)
    ELSE SplitLines(Tail(text), Append(line, Head(text)))

Lines(doc) == SplitLines(doc, <<>>)

\* The content mode of a build: an omitted one counts as text/plain.
ContentMode(p) == IF p.mimeType.present THEN p.mimeType.v ELSE "text/plain"

C10_MultipartStructure ==
    (/\ Built
     /\ built.status = "returned"
     /\ params.htmlBody.present /\ params.htmlBody.v # <<>>
     /\ params.mimeType = Some("multipart/alternative")
     /\ ~HasAttachments(params)) =>
        LET L == Lines(built.doc)
            IsTop(l) == /\ Len(l) >= 2
                        /\ l[1] = "Content-Type: multipart/alternative; boundary=\""
                        /\ l[Len(l)] = "\""
            tops == {n \in 1..Len(L) : IsTop(L[n])}
        IN /\ tops # {}
           /\ LET h == CHOOSE n \in tops : \A m \in tops : n <= m
                  token == SubSeq(L[h], 2, Len(L[h]) - 1)
                  delims == {n \in 1..Len(L) : L[n] = <<"--">> \o token}
                  closes == {n \in 1..Len(L) : L[n] = <<"--">> \o token \o <<"--">>}
              IN /\ Cardinality(delims) = 2
                 /\ closes = {Len(L)}
                 /\ \A n \in delims : h < n
                 /\ LET d1 == CHOOSE n \in delims : \A m \in delims : n <= m
                        d2 == CHOOSE n \in delims : \A m \in delims : m <= n
                    IN /\ d1 + 2 < d2
                       /\ d2 + 2 < Len(L)
                       /\ L[d1 + 1] = <<"Content-Type: text/plain; charset=UTF-8">>
                       /\ L[d1 + 2] = <<"Content-Transfer-Encoding: 7bit">>
                       /\ L[d2 + 1] = <<"Content-Type: text/html; charset=UTF-8">>
                       /\ L[d2 + 2] = <<"Content-Transfer-Encoding: 7bit">>

\* Whether the boundary drawn occurs as a line start of a body of the build.
BoundaryInBodies ==
    \E n \in 1..Len(Lines(params.body) \o Lines(HtmlOrBody(params))) :
        LET l == (Lines(params.body) \o Lines(HtmlOrBody(params)))[n]
        IN Len(l) >= Len(boundary) + 1 /\ SubSeq(l, 1, Len(boundary) + 1) = <<"--">> \o boundary

\* The structure of C10 where the boundary drawn is in neither body.
C10_WithoutCollision == BoundaryInBodies \/ C10_MultipartStructure

\* Whether the text tok occurs verbatim, as consecutive characters, in text.
Occurs(tok, text) ==
    \E n \in 1..(Len(text) - Len(tok) + 1) :
        SubSeq(text, n, n + Len(tok) - 1) = tok

\* C11: in every document built in MULTIPART mode, the boundary token of the
\* document occurs verbatim neither in the plain body nor in the html body.
C11_BoundaryNotInBodies ==
    (Built /\ mode = "MULTIPART" /\ built.status = "returned") =>
        /\ ~Occurs(boundary, params.body)
        /\ ~Occurs(boundary, params.htmlBody.v)

\* Every address of a build, in the order to, cc, bcc.
AllRecipients(p) == p.to \o p.cc.v \o p.bcc.v

\* The positions in AllRecipients(p) of the addresses that fail the address
\* syntax check.
InvalidRecipients(p) ==
    {n \in 1..Len(AllRecipients(p)) : ~validateEmail(AllRecipients(p)[n])}

\* C12: in every build mode, a build with an address in to, cc or bcc that
\* fails the address syntax check throws an error naming the first such
\* address (in the order to, cc, bcc) and returns no document, and
\* fs.existsSync has been asked about no attachment path.
C12_InvalidAddress ==
    (Built /\ InvalidRecipients(params) # {}) =>
        LET first == CHOOSE n \in InvalidRecipients(params) :
                         \A m \in InvalidRecipients(params) : n <= m
        IN /\ built.status = "threw"
           /\ built.doc = <<>>
           /\ built.error = <<"Invalid email address: ">> \o AllRecipients(params)[first]
           /\ lookups = <<>>

\* C12 witness: an ATTACHMENT build with existing and missing files listed,
\* a valid to, an invalid cc and another invalid bcc, that threw naming the
\* cc address.
C12_Witness ==
    /\ Built
    /\ mode = "ATTACHMENT"
    /\ params.to = <<AddrValid>>
    /\ params.cc = Some(<<AddrNoDot>>)
    /\ params.bcc = Some(<<AddrSpace>>)
    /\ params.attachments = Some(<<PathPresent, PathMissing>>)
    /\ built = Threw(<<"Invalid email address: ">> \o AddrNoDot)
    /\ lookups = <<>>

\* C13: in every build mode, a build whose to list is empty throws and
\* returns no document.
C13_EmptyRecipients ==
    (Built /\ params.to = <<>>) =>
        /\ built.status = "threw"
        /\ built.doc = <<>>

\* The builds with an empty to list that C13 is about: with every cc and bcc
\* address valid, each of them returns a document whose To header is empty.
C13_EmptyToBuilds ==
    (Built /\ params.to = <<>> /\ InvalidRecipients(params) = {}
       /\ mode # "ATTACHMENT") =>
        /\ built.status = "returned"
        /\ Lines(built.doc)[2] = <<"To: ">>

\* The positions in the attachments list of the paths that do not exist.
MissingAttachments(p) ==
    {n \in 1..Len(p.attachments.v) : p.attachments.v[n] \notin files}

BuiltDirectly == mpc = "direct"

\* C15: buildEmailWithAttachments called with attachments absent or empty
\* throws (with every address valid, 'No attachments provided') and returns
\* no document; and buildEmail dispatches to it only with at least one
\* attachment listed.
C15_NoAttachments ==
    /\ (BuiltDirectly /\ (~params.attachments.present \/ params.attachments.v = <<>>)) =>
           /\ built.status = "threw"
           /\ built.doc = <<>>
           /\ lookups = <<>>
           /\ InvalidRecipients(params) = {} =>
                  built.error = <<"No attachments provided">>
    /\ (Built /\ mode = "ATTACHMENT") =>
           params.attachments.present /\ Len(params.attachments.v) >= 1

\* C15 witness: buildEmailWithAttachments called with valid addresses and an
\* empty attachments array has thrown 'No attachments provided'.
C15_Witness ==
    /\ BuiltDirectly
    /\ params.to = <<AddrValid>>
    /\ params.attachments = Some(<<>>)
    /\ built = Threw(<<"No attachments provided">>)

\* The header lines C16 lists for a PLAIN document, in order.
PlainHeaderLines(p) ==
    << <<"From: me">>, <<"To: ">> \o Join(p.to, ", ") >>
    \o (IF p.cc.present THEN << <<"Cc: ">> \o Join(p.cc.v, ", ") >> ELSE <<>>)
    \o (IF p.bcc.present THEN << <<"Bcc: ">> \o Join(p.bcc.v, ", ") >> ELSE <<>>)
    \o << <<"Subject: ">> \o encodeHeader(p.subject) >>
    \o (IF p.inReplyTo.present
        THEN << <<"In-Reply-To: ">> \o p.inReplyTo.v,
                <<"References: ">> \o p.inReplyTo.v >>
        ELSE <<>>)
    \o << <<"MIME-Version: 1.0">>,
          <<"Content-Type: text/plain; charset=UTF-8">>,
          <<"Content-Transfer-Encoding: 7bit">> >>

\* Whether a document holds a blank line: two line ends in a row.
HasBlankLine(doc) ==
    \E n \in 1..(Len(doc) - 1) : doc[n] = CRLF /\ doc[n + 1] = CRLF

\* C16: every document built in PLAIN, HTML or MULTIPART mode has a blank
\* line after its header lines; a PLAIN document is the header lines From,
\* To, Cc and Bcc when given, Subject, In-Reply-To and References when
\* given, MIME-Version, Content-Type and Content-Transfer-Encoding, each
\* ended by CRLF, then one blank line, then the plain body verbatim.
C16_HeaderBlankLineBody ==
    (Built /\ built.status = "returned" /\ mode \in {"PLAIN", "HTML", "MULTIPART"}) =>
        /\ HasBlankLine(built.doc)
        /\ mode = "PLAIN" =>
               built.doc = Join(PlainHeaderLines(params), CRLF)
                               \o <<CRLF, CRLF>> \o params.body

\* What a PLAIN build returns instead: the header lines and the body joined
\* by single CRLFs, and no line at all for an empty body.
C16_PlainAsBuilt ==
    (Built /\ built.status = "returned" /\ mode = "PLAIN") =>
        built.doc = Join(PlainHeaderLines(params), CRLF)
                        \o (IF params.body = <<>> THEN <<>> ELSE <<CRLF>> \o params.body)

\* The characters of the model outside US-ASCII.
NonAsciiChars == {"U+00E9", "U+20AC", "U+D83D", "U+DE00"}

AsciiOnly(text) == \A n \in 1..Len(text) : text[n] \notin NonAsciiChars

\* The header lines of a document that carry a value of the build, by name.
HeaderLines(doc, name) ==
    {n \in 1..Len(Lines(doc)) :
        Lines(doc)[n] # <<>> /\ Lines(doc)[n][1] = name}

\* A header value as C17 has it emitted: unchanged when it is ASCII only,
\* as an encoded word '=?UTF-8?B?' ... '?=' otherwise.
EmittedAsClaimed(line, name, value) ==
    IF AsciiOnly(value) THEN line = <<name>> \o value
    ELSE /\ Len(line) >= 3
         /\ line[2] = "=?UTF-8?B?"
         /\ line[Len(line)] = "?="
         /\ AsciiOnly(line)

\* C17: in every document built in PLAIN, HTML or MULTIPART mode the lines
\* of To, Cc, Bcc, Subject, In-Reply-To and References hold ASCII
\* characters only: a value with a non-ASCII character is emitted as an
\* encoded word, an ASCII-only value unchanged.
C17_HeadersAscii ==
    (Built /\ built.status = "returned" /\ mode \in {"PLAIN", "HTML", "MULTIPART"}) =>
        LET L == Lines(built.doc)
            p == params
        IN /\ \A n \in HeaderLines(built.doc, "To: ") :
                  EmittedAsClaimed(L[n], "To: ", Join(p.to, ", "))
           /\ \A n \in HeaderLines(built.doc, "Cc: ") :
                  EmittedAsClaimed(L[n], "Cc: ", Join(p.cc.v, ", "))
           /\ \A n \in HeaderLines(built.doc, "Bcc: ") :
                  EmittedAsClaimed(L[n], "Bcc: ", Join(p.bcc.v, ", "))
           /\ \A n \in HeaderLines(built.doc, "Subject: ") :
                  EmittedAsClaimed(L[n], "Subject: ", p.subject)
           /\ \A n \in HeaderLines(built.doc, "In-Reply-To: ") :
                  EmittedAsClaimed(L[n], "In-Reply-To: ", p.inReplyTo.v)
           /\ \A n \in HeaderLines(built.doc, "References: ") :
                  EmittedAsClaimed(L[n], "References: ", p.inReplyTo.v)

\* What the builds do: the Subject line alone is emitted as C17 says, the
\* To, In-Reply-To and References lines hold their values unchanged.
C17_SubjectOnly ==
    (Built /\ built.status = "returned" /\ mode \in {"PLAIN", "HTML", "MULTIPART"}) =>
        LET L == Lines(built.doc)
        IN /\ HeaderLines(built.doc, "Subject: ") # {}
           /\ \A n \in HeaderLines(built.doc, "Subject: ") :
                  EmittedAsClaimed(L[n], "Subject: ", params.subject)
           /\ \A n \in HeaderLines(built.doc, "To: ") :
                  L[n] = <<"To: ">> \o Join(params.to, ", ")
           /\ \A n \in HeaderLines(built.doc, "In-Reply-To: ") :
                  L[n] = <<"In-Reply-To: ">> \o params.inReplyTo.v
           /\ \A n \in HeaderLines(built.doc, "References: ") :
                  L[n] = <<"References: ">> \o params.inReplyTo.v

\* C19: in every mode, ATTACHMENT included, no line of a returned document
\* ends with a bare LF: every line end the builder writes is CRLF.  (No body
\* the builds are drawn over holds a LF of its own.)
C19_LineEnds ==
    (Built /\ built.status = "returned") =>
        \A n \in 1..Len(built.doc) : built.doc[n] # LF

\* The line ends by mode: CRLF and no LF in PLAIN, HTML and MULTIPART; in
\* ATTACHMENT the header lines From and To end with LF.
C19_LineEndsByMode ==
    (Built /\ built.status = "returned") =>
        IF mode = "ATTACHMENT"
        THEN /\ built.doc[1] = "From: me"
             /\ built.doc[2] = LF
             /\ built.doc[3] = "To: "
             /\ \E n \in 4..Len(built.doc) :
                    /\ built.doc[n] = LF
                    /\ \A m \in 4..(n - 1) : built.doc[m] \notin {LF, CRLF}
        ELSE /\ \E n \in 1..Len(built.doc) : built.doc[n] = CRLF
             /\ \A n \in 1..Len(built.doc) : built.doc[n] # LF

(***************************************************************************)
(* Claims about encodeHeader, checked under SpecHeader.                    *)
(***************************************************************************)
\* The decoder of C18: base64 to bytes, bytes to code points as UTF-8, code
\* points to the code units of a string.
Base64Value(ch) == (CHOOSE n \in 1..64 : Base64Alphabet[n] = ch) - 1

RECURSIVE Base64Decode(_)
Base64Decode(chars) ==
    IF Len(chars) < 4 THEN <<>>
    ELSE LET a == Base64Value(chars[1])
             b == Base64Value(chars[2])
             rest == Base64Decode(SubSeq(chars, 5, Len(chars)))
         IN IF chars[3] = "=" THEN <<(a * 4) + (b \div 16)>>
            ELSE LET c == Base64Value(chars[3])
                 IN IF chars[4] = "="
                    THEN <<(a * 4) + (b \div 16), ((b % 16) * 16) + (c \div 4)>>
                    ELSE <<(a * 4) + (b \div 16), ((b % 16) * 16) + (c \div 4),
                           ((c % 4) * 64) + Base64Value(chars[4])>> \o rest

RECURSIVE Utf8Decode(_)
Utf8Decode(bytes) ==
    IF bytes = <<>> THEN <<>>
    ELSE IF bytes[1] < 128 THEN <<bytes[1]>> \o Utf8Decode(Tail(bytes))
    ELSE IF 192 <= bytes[1] /\ bytes[1] < 224 /\ Len(bytes) >= 2
        THEN <<((bytes[1] - 192) * 64) + (bytes[2] - 128)>>
                 \o Utf8Decode(SubSeq(bytes, 3, Len(bytes)))
    ELSE IF 224 <= bytes[1] /\ bytes[1] < 240 /\ Len(bytes) >= 3
        THEN <<((bytes[1] - 224) * 4096) + ((bytes[2] - 128) * 64) + (bytes[3] - 128)>>
                 \o Utf8Decode(SubSeq(bytes, 4, Len(bytes)))
    ELSE IF 240 <= bytes[1] /\ Len(bytes) >= 4
        THEN <<((bytes[1] - 240) * 262144) + ((bytes[2] - 128) * 4096)
                 + ((bytes[3] - 128) * 64) + (bytes[4] - 128)>>
                 \o Utf8Decode(SubSeq(bytes, 5, Len(bytes)))
    ELSE <<65533>> \o Utf8Decode(Tail(bytes))

\* The code units of a sequence of code points.
Utf16(cps) ==
    Concat([n \in 1..Len(cps) |->
        IF cps[n] < 65536 THEN <<cps[n]>>
        ELSE <<55296 + ((cps[n] - 65536) \div 1024),
               56320 + ((cps[n] - 65536) % 1024)>>])

CharOf(u) == CHOOSE ch \in HeaderChars \cup {"U+FFFD"} : CharCode(ch) = u

\* Strip '=?UTF-8?B?' and '?=', then base64-decode as UTF-8.
DecodeWord(word) ==
    LET units == Utf16(Utf8Decode(Base64Decode(SubSeq(word, 2, Len(word) - 1))))
    IN [n \in 1..Len(units) |-> CharOf(units[n])]

IsEncodedWord(word) ==
    Len(word) >= 2 /\ word[1] = "=?UTF-8?B?" /\ word[Len(word)] = "?="

\* A string is well formed when every surrogate in it is half of a pair: a
\* high surrogate directly followed by a low one.
WellFormed(text) ==
    \A n \in 1..Len(text) :
        /\ IsHighSurrogate(CharCode(text[n])) =>
               n < Len(text) /\ IsLowSurrogate(CharCode(text[n + 1]))
        /\ IsLowSurrogate(CharCode(text[n])) =>
               n > 1 /\ IsHighSurrogate(CharCode(text[n - 1]))

Encoded == hpc = "done"

\* C18 as stated: for every string with a non-ASCII character, encodeHeader
\* returns an encoded word whose decoding is the string; for every ASCII-only
\* string it returns the string.
C18_Original ==
    Encoded =>
        IF AsciiOnly(hdrIn) THEN hdrOut = hdrIn
        ELSE IsEncodedWord(hdrOut) /\ DecodeWord(hdrOut) = hdrIn

\* C18 as amended: the same, for the strings with a non-ASCII character in
\* which no surrogate stands without its partner.
C18_RoundTrip ==
    Encoded =>
        IF AsciiOnly(hdrIn) THEN hdrOut = hdrIn
        ELSE /\ IsEncodedWord(hdrOut)
             /\ AsciiOnly(hdrOut)
             /\ WellFormed(hdrIn) => DecodeWord(hdrOut) = hdrIn

\* C18 witness: the three code units of 'é' and the pair of U+1F600 were
\* encoded as a word of eight base64 characters that decodes to them.
C18_Witness ==
    /\ Encoded
    /\ hdrIn = <<"U+00E9", "U+D83D", "U+DE00">>
    /\ IsEncodedWord(hdrOut)
    /\ Len(hdrOut) = 10
    /\ DecodeWord(hdrOut) = hdrIn

\* What decoding gives for a surrogate without its partner: U+FFFD.
C18_LoneSurrogate ==
    (Encoded /\ hdrIn = <<"H", "U+D83D">>) =>
        DecodeWord(hdrOut) = <<"H", "U+FFFD">>

(***************************************************************************)
(* Claims about sendEmail and createDraft, checked under SpecSend.         *)
(***************************************************************************)
\* C20: sendEmail and createDraft issue the remote call only once buildEmail
\* has returned a document, and with that document; after a build that
\* threw, no remote call is issued in the invocation, the method ends with
\* the build's error, and buildEmail is called at most once.
C20_BuildBeforeRemote ==
    /\ [][remote' # remote =>
            /\ mpc = "done"
            /\ built.status = "returned"
            /\ remote = <<>>
            /\ remote' = <<[api |-> ApiOf(op),
                            body |-> MessageRequest(built.doc, threadId)]>>]_vars
    /\ [][buildCalls' # buildCalls => buildCalls = 0 /\ buildCalls' = 1]_vars
    /\ []((mpc = "done" /\ built.status = "threw") => remote = <<>>)
    /\ []((spc = "done" /\ mpc = "done" /\ built.status = "threw") =>
              sent = SendThrew(built.error))
    /\ []((spc = "done" /\ sent.status = "returned") =>
              Len(remote) = 1 /\ built.status = "returned")

\* C20 witness: createDraft has ended after a build that threw on a missing
\* attachment: one build, no remote call, the build's error thrown.
C20_Witness ==
    /\ spc = "done"
    /\ op = "createDraft"
    /\ mode = "ATTACHMENT"
    /\ built = Threw(<<"File does not exist: ">> \o PathMissing)
    /\ buildCalls = 1
    /\ remote = <<>>
    /\ sent = SendThrew(<<"File does not exist: ">> \o PathMissing)

\* A sendEmail that went through: the remote call carries the built document.
C20_SentWitness ==
    /\ spc = "done"
    /\ op = "sendEmail"
    /\ sent = SentId(<<"m1">>)
    /\ Len(remote) = 1
    /\ remote[1].api = "users.messages.send"
    /\ remote[1].body.raw = EncodedMessage(built.doc)
    /\ remote[1].body.threadId = Some(<<"t1">>)

(***************************************************************************)
(* Claims about the order and the end of a batch run.                      *)
(***************************************************************************)
\* The input positions (0-based) at which a chunk starts.
ChunkStarts == {p \in 0..(Len(items) - 1) : p % batchSize = 0}

\* C22: with a chunk size of at least 1 and every processFn call settling,
\* a batch run eventually returns its result, and by then the bulk call of
\* every chunk has been issued and has settled, also of the chunks after one
\* that failed.
C22_Completes ==
    <>(/\ bpc = "done"
       /\ result.status = "returned"
       /\ \A p \in ChunkStarts :
              \E n \in BulkIdx : calls[n].pos = p /\ calls[n].status # "pending")

\* C22 witness: a run over three chunks of one item has returned; the bulk
\* call of the first chunk threw and those of the two chunks after it were
\* made.
C22_Witness ==
    /\ bpc = "done"
    /\ Len(items) = 3
    /\ batchSize = 1
    /\ BulkCallSeq[1].status = "threw"
    /\ Len(BulkCallSeq) = 3
    /\ BulkCallSeq[3].status = "ok"

\* The chunk (0-based) that a call belongs to.
ChunkOf(c) == c.pos \div batchSize

\* C29: a processFn call is issued only when every call issued before it has
\* settled, and a bulk call only when the calls before it are those of
\* earlier chunks, the single-item calls of a failed chunk included; at most
\* one processFn call is pending at any time.
C29_OneChunkAtATime ==
    /\ [][Len(calls') > Len(calls) =>
            /\ Len(calls') = Len(calls) + 1
            /\ \A n \in 1..Len(calls) : calls[n].status # "pending"
            /\ calls'[Len(calls')].kind = "bulk" =>
                  \A n \in 1..Len(calls) :
                      /\ ChunkOf(calls[n]) < ChunkOf(calls'[Len(calls')])
                      /\ (calls[n].kind = "bulk" /\ calls[n].status = "threw") =>
                            \A q \in Covers(calls[n]) :
                                \E m \in 1..Len(calls) :
                                    /\ calls[m].kind = "single"
                                    /\ calls[m].pos = q]_vars
    /\ [](Cardinality({n \in CallIdx : calls[n].status = "pending"}) <= 1)

\* C29 witness: the bulk call of the second chunk is pending after the first
\* chunk's bulk call threw and its two single-item calls have settled.
C29_Witness ==
    /\ bpc = "awaitBulk"
    /\ Len(calls) = 4
    /\ calls[1].kind = "bulk" /\ calls[1].status = "threw"
    /\ calls[2].kind = "single" /\ calls[2].status # "pending"
    /\ calls[3].kind = "single" /\ calls[3].status # "pending"
    /\ calls[4].kind = "bulk" /\ calls[4].status = "pending"

(***************************************************************************)
(* Claims about batchModifyEmails and batchDeleteEmails, checked under     *)
(* SpecService.                                                            *)
(***************************************************************************)
\* C25: a run of batchModifyEmails or batchDeleteEmails with a batchSize of
\* zero or below eventually ends, by returning or by throwing, for every
\* message list.
C25_InvalidSizeEnds ==
    (batchSize <= 0) => <>(bpc = "done")

\* What such a run does over a non-empty list: it never ends, and it has
\* not thrown.
C25_NeverEnds ==
    (batchSize <= 0 /\ items # <<>>) =>
        /\ bpc # "done"
        /\ result = Running

\* C26: in batchDeleteEmails, a fallback delete of a message that the bulk
\* attempt has deleted already is rejected as not found, and that is
\* recorded as a failure of that message with the error of deleteEmail; the
\* run goes on with the next item, never throws, and with a batchSize of at
\* least 1 it ends.
C26_DeletedTwice ==
    /\ [][\A n \in PendingCalls :
            (/\ svcOp = "delete"
             /\ AwaitedSingle(n)
             /\ rcalls[n].id \in deleted
             /\ rcalls'[n].status # "pending") =>
                /\ rcalls'[n].status = "threw"
                /\ rcalls'[n].err = NotFoundMessage
                /\ failures' = Append(failures,
                       [item |-> rcalls[n].id,
                        error |-> "Failed to delete email: " \o NotFoundMessage])
                /\ successes' = successes
                /\ k' = k + 1
                /\ bpc' = "fallback"]_vars
    /\ [](result.status # "threw")
    /\ (svcOp = "delete" /\ batchSize >= 1) => <>(bpc = "done")

\* C26 witness: batchDeleteEmails(['m1', 'm2'], 2) has returned; the bulk
\* attempt deleted m1 and failed on m2, the fallback's delete of m1 was
\* rejected as not found, and m1, deleted, is listed in failures.
C26_Witness ==
    /\ bpc = "done"
    /\ svcOp = "delete"
    /\ items = <<"m1", "m2">>
    /\ batchSize = 2
    /\ Len(rcalls) = 4
    /\ rcalls[1].id = "m1" /\ rcalls[1].kind = "bulk" /\ rcalls[1].status = "ok"
    /\ rcalls[2].id = "m2" /\ rcalls[2].kind = "bulk" /\ rcalls[2].status = "threw"
    /\ rcalls[3].id = "m1" /\ rcalls[3].kind = "single" /\ rcalls[3].err = NotFoundMessage
    /\ "m1" \in deleted
    /\ result.failures[1] =
           [item |-> "m1", error |-> "Failed to delete email: Requested entity was not found."]

\* C27: during a run over distinct message ids no two remote calls for the
\* same message are pending at the same time.
C27_NoOverlap ==
    \A n, m \in PendingCalls : rcalls[n].id = rcalls[m].id => n = m

\* Where two calls for a message overlap: one is the fallback's single-item
\* call, the other a call of a bulk attempt that Promise.all has left behind.
C27_OverlapIsLeftover ==
    \A n, m \in PendingCalls :
        (rcalls[n].id = rcalls[m].id /\ n < m) =>
            /\ rcalls[n].kind = "bulk"
            /\ rcalls[m].kind = "single"
            /\ \E q \in 1..Len(rcalls) :
                  /\ rcalls[q].kind = "bulk"
                  /\ rcalls[q].chunk = rcalls[n].chunk
                  /\ rcalls[q].status = "threw"

\* C28: at every moment of a run with a batchSize of at least 1, at most
\* batchSize remote calls are pending.
C28_FanOut ==
    batchSize >= 1 => Cardinality(PendingCalls) <= batchSize

\* With a batchSize of 1 nothing is left behind: one call is pending at most.
C28_OneAtATime ==
    batchSize = 1 => Cardinality(PendingCalls) <= 1

(***************************************************************************)
(* Claims about the batch tools, checked under SpecTool.                   *)
(***************************************************************************)
\* The batchSize argument is valid: absent, or a whole number from 1 to 100.
ValidBatchSizeArg(arg) ==
    ~arg.present
    \/ \E n \in 1..100 : arg.v.num = n * arg.v.den

\* C21: batch_modify_emails and batch_delete_emails run a batch only with a
\* batchSize that is a whole number from 1 to 100, the one given or 50 when
\* none is given; a call whose batchSize is zero, negative, not whole or
\* above 100 is answered with a validation error and issues no remote call.
C21_BatchSizeValidated ==
    /\ bpc # "idle" =>
           /\ batchSize \in 1..100
           /\ ValidBatchSizeArg(toolArgs.batchSize)
           /\ batchSize = IF toolArgs.batchSize.present
                          THEN toolArgs.batchSize.v.num \div toolArgs.batchSize.v.den
                          ELSE 50
    /\ ~ValidBatchSizeArg(toolArgs.batchSize) =>
           /\ bpc = "idle"
           /\ rcalls = <<>>
           /\ tpc = "done" =>
                  /\ toolResp.kind = "validation"
                  /\ toolResp.text[1] = "Validation error: "

\* C21 witness: batch_delete_emails with three message ids and a batchSize
\* of 2.5 was answered with the validation error of the integer check, and
\* no remote call was issued.
C21_Witness ==
    /\ tpc = "done"
    /\ toolArgs.tool = "batch_delete_emails"
    /\ toolArgs.messageIds = <<"m1", "m2", "m3">>
    /\ toolArgs.batchSize = GivenNumber(5, 2)
    /\ toolResp = [kind |-> "validation",
                   text |-> <<"Validation error: ",
                              "batchSize: Expected integer, received float">>]
    /\ rcalls = <<>>

\* A call without batchSize runs its three messages as one chunk of 50.
C21_DefaultWitness ==
    /\ tpc = "done"
    /\ ~toolArgs.batchSize.present
    /\ batchSize = 50
    /\ Len(rcalls) = 3
    /\ toolResp.kind = "result"
    /\ toolResp.successes = 3

(***************************************************************************)
(* Claims about the label operations, checked under SpecLabel.             *)
(***************************************************************************)
\* The ids of the system labels.
SystemIds == {l.id : l \in {x \in UNION LabelStores : x.type = "system"}}

\* C23: for a label whose type is 'system', deleteLabel never issues the
\* remote labels.delete call, the label stays, and deleteLabel ends with an
\* error.
C23_SystemLabelKept ==
    dId \in SystemIds =>
        /\ \A call \in lcalls : call.method # "delete"
        /\ \E l \in labels : l.id = dId /\ l.type = "system"
        /\ dpc \in {"start", "getting", "done"}
        /\ dpc = "done" => dres.kind = "error"

\* C23 witness: deleteLabel('INBOX') has ended with the wrapped error of
\* line 796, after labels.get and nothing else.
C23_Witness ==
    /\ dId = "INBOX"
    /\ dpc = "done"
    /\ dheld = InboxLabel
    /\ dres = LabelError(<<"Failed to delete label: ",
                           "Cannot delete system label with ID \"", "INBOX", "\".">>)
    /\ lcalls = {LabelCall(0, "get", "INBOX")} \cup {call \in lcalls : call.caller # 0}

\* The remote creates issued for a name, whatever its case.
CreatesOf(name) ==
    {call \in lcalls :
        call.method = "create" /\ ToLowerCase(call.arg) = ToLowerCase(name)}

\* C24: whatever the interleaving of the callers, at most one remote create
\* is issued for a name (case ignored), and every call that has returned
\* has returned a label of that name, not an error.
C24_NoDuplicateCreate ==
    \A c \in Callers :
        /\ Cardinality(CreatesOf(gname[c])) <= 1
        /\ gpc[c] \in {"returned", "done"} /\ gresp[c].kind # "validation" =>
               /\ gres[c].kind = "label"
               /\ ToLowerCase(gres[c].label.name) = ToLowerCase(gname[c])

\* What holds instead: a caller that is alone with its name issues at most
\* one create and returns a label of that name; an error comes only to a
\* caller whose create ran beside another caller's create for the name.
C24_AloneIsSafe ==
    \A c \in Callers :
        /\ (\A d \in Callers \ {c} : ToLowerCase(gname[d]) # ToLowerCase(gname[c])) =>
               /\ Cardinality(CreatesOf(gname[c])) <= 1
               /\ gpc[c] \in {"returned", "done"} /\ gresp[c].kind # "validation" =>
                      /\ gres[c].kind = "label"
                      /\ ToLowerCase(gres[c].label.name) = ToLowerCase(gname[c])
        /\ gres[c].kind = "error" => Cardinality(CreatesOf(gname[c])) >= 2

\* Caller c has issued a remote create.
IssuedCreate(c) ==
    \E call \in lcalls : call.caller = c /\ call.method = "create"

\* C30: the response of get_or_create_label says 'created new' exactly when
\* the call created the label remotely, and 'found existing' exactly when
\* the label was found and returned without a create.
C30_ActionTellsTruth ==
    \A c \in Callers :
        gresp[c].kind = "result" =>
            /\ gresp[c].action = "created new" <=> IssuedCreate(c)
            /\ gresp[c].action = "found existing" <=> ~IssuedCreate(c)

\* What holds instead: the word follows the spelling.  'created new' is
\* said only of a label that was found under another spelling of its case
\* and never of one this call created; a created label is always reported
\* as 'found existing'.
C30_ActionTellsSpelling ==
    \A c \in Callers :
        gresp[c].kind = "result" =>
            /\ gresp[c].action = "created new" =>
                   ~IssuedCreate(c) /\ gres[c].label.name # gname[c]
            /\ IssuedCreate(c) => gresp[c].action = "found existing"

====
